---- MODULE Spec2Model ----
(***************************************************************************)
(* Model of the gotsunami load-generation pipeline: the LoadEngine that    *)
(* orchestrates a run, its Workers (one goroutine per virtual user), the   *)
(* metrics Collector they share, the response validator and the pacing     *)
(* computation.                                                            *)
(*                                                                         *)
(* A goroutine is a process with a program counter.  Every atomic.AddInt64 *)
(* and every critical section of Collector.mu is one step, so that the     *)
(* interleavings of the model are the interleavings of the Go program.     *)
(***************************************************************************)
EXTENDS Integers, Sequences, FiniteSets, TLC

(***************************************************************************)
(* Bounds of the model.                                                    *)
(***************************************************************************)
\* number of worker goroutines of the engine (len(e.workers))
NumWorkers == 2
\* largest value of config.MaxRequests that Init draws (0 = unlimited)
MaxRequestsBound == 1
\* cap on the requests that the workers of a run begin, all together
MaxTotalRequests == 2
\* the clock reads of a run range over 1..MaxTime (Collector.Start reads 1)
MaxTime == 2

Workers == 1..NumWorkers

\* the nil error / nil pointer
Nil == "nil"

RECURSIVE SumOver(_, _)
\* sum of the values of the function f over the finite set S of its keys
SumOver(f, S) ==
    IF S = {} THEN 0
    ELSE LET k == CHOOSE x \in S : TRUE IN f[k] + SumOver(f, S \ {k})

\* sum of all the buckets of a map (a Go map[K]int64, absent key = 0)
MapSum(f) == SumOver(f, DOMAIN f)

(***************************************************************************)
(* Load pattern and pacing (internal/engine/worker.go).                    *)
(*                                                                         *)
(* Durations are integers (ticks).  A float64 intensity is the exact       *)
(* rational [n, d] with d > 0; every intensity the code computes is a      *)
(* literal (0.0, 0.2, 0.5, 1.0, 1.5) or a quotient of two durations.       *)
(***************************************************************************)
Rat(n, d) == [n |-> n, d |-> d]

LoadPhase(duration, intensity) == [Duration |-> duration, Intensity |-> intensity]

\* 100 * time.Millisecond, in milliseconds
baseDelay == 100

calculateSpikePattern(config) ==
    [Type |-> "spike",
     Phases |-> << LoadPhase(config.Duration \div 4, Rat(1, 5)),
                   LoadPhase(config.Duration \div 4, Rat(1, 1)),
                   LoadPhase(config.Duration \div 2, Rat(1, 5)) >>]

calculateSteadyPattern(config) ==
    [Type |-> "steady",
     Phases |-> << LoadPhase(config.RampUp, Rat(0, 1)),
                   LoadPhase(config.Duration - config.RampUp - config.RampDown, Rat(1, 1)),
                   LoadPhase(config.RampDown, Rat(0, 1)) >>]

calculateRampUpPattern(config) ==
    [Type |-> "ramp-up",
     Phases |-> << LoadPhase(config.Duration, Rat(0, 1)) >>]

calculateStressPattern(config) ==
    [Type |-> "stress",
     Phases |-> << LoadPhase(config.Duration \div 3, Rat(1, 2)),
                   LoadPhase(config.Duration \div 3, Rat(1, 1)),
                   LoadPhase(config.Duration \div 3, Rat(3, 2)) >>]

calculateLoadPattern(config) ==
    CASE config.Pattern = "spike"   -> calculateSpikePattern(config)
      [] config.Pattern = "steady"  -> calculateSteadyPattern(config)
      [] config.Pattern = "ramp-up" -> calculateRampUpPattern(config)
      [] config.Pattern = "stress"  -> calculateStressPattern(config)
      [] OTHER                      -> calculateSteadyPattern(config)

\* float64(elapsed) / float64(phase.Duration), capped at 1.0
Progress(phase, elapsed) ==
    LET n == IF phase.Duration < 0 THEN 0 - elapsed ELSE elapsed
        d == IF phase.Duration < 0 THEN 0 - phase.Duration ELSE phase.Duration
    IN  IF n > d THEN Rat(1, 1) ELSE Rat(n, d)

calculateIntensity(config, phase, elapsed) ==
    IF phase.Duration = 0 THEN phase.Intensity
    ELSE IF config.Pattern = "ramp-up" THEN Progress(phase, elapsed)
    ELSE phase.Intensity

RECURSIVE FindPhase(_, _, _, _)
\* the "find current phase" loop of calculateDelay, from phase i on:
\* the first phase with elapsed < phaseStart + phase.Duration, and its start
FindPhase(phases, i, phaseStart, elapsed) ==
    IF i > Len(phases) THEN [found |-> FALSE, index |-> 0, phaseStart |-> phaseStart]
    ELSE IF elapsed < phaseStart + phases[i].Duration
         THEN [found |-> TRUE, index |-> i, phaseStart |-> phaseStart]
         ELSE FindPhase(phases, i + 1, phaseStart + phases[i].Duration, elapsed)

\* a time.Duration value: a finite number of milliseconds, or one of the two
\* ends of int64 that a float64 -> int64 conversion of +Inf can give
FiniteDelay(v) == [kind |-> "finite", v |-> v]
MaxInt64Delay == [kind |-> "maxint64", v |-> 0]
MinInt64Delay == [kind |-> "minint64", v |-> 0]

\* delay > 0
DelayPositive(delay) ==
    \/ delay.kind = "maxint64"
    \/ delay.kind = "finite" /\ delay.v > 0

\* time.Duration(float64(baseDelay) / intensity).  Dividing by 0.0 gives +Inf,
\* and Go leaves the conversion of +Inf to int64 to the implementation:
\* conv is what the build does ("saturate": MaxInt64, as arm64; "indefinite":
\* MinInt64, as amd64).
IntensityToDelay(intensity, conv) ==
    IF intensity.n = 0
    THEN IF conv = "saturate" THEN MaxInt64Delay ELSE MinInt64Delay
    ELSE IF intensity.n > 0
         THEN FiniteDelay((baseDelay * intensity.d) \div intensity.n)
         ELSE FiniteDelay(0 - ((baseDelay * intensity.d) \div (0 - intensity.n)))

\* time.Since(time.Now().Add(-config.Duration)): the duration plus the time
\* that passes between the two clock reads
Elapsed(config, jitter) == config.Duration + jitter

\* the body of calculateDelay up to the intensity, for a value of elapsed: the
\* phase the lookup finds, if any, and what calculateIntensity gives for it
currentPhase(config, pattern, elapsed) ==
    LET cur == FindPhase(pattern.Phases, 1, 0, elapsed)
    IN  IF ~cur.found
        THEN [found |-> FALSE, index |-> 0, intensity |-> Rat(0, 1)]
        ELSE [found |-> TRUE, index |-> cur.index,
              intensity |-> calculateIntensity(config, pattern.Phases[cur.index],
                                               elapsed - cur.phaseStart)]

\* the rest of calculateDelay: zero without a phase, else the delay of the
\* intensity
phaseDelay(cur, conv) ==
    IF ~cur.found THEN FiniteDelay(0) ELSE IntensityToDelay(cur.intensity, conv)

calculateDelay(config, pattern, jitter, conv) ==
    phaseDelay(currentPhase(config, pattern, Elapsed(config, jitter)), conv)

(***************************************************************************)
(* Responses (internal/protocols) and the validator                        *)
(* (internal/validation/response_validator.go).                            *)
(*                                                                         *)
(* A string that the code only compares is a TLA+ string; a string whose   *)
(* characters the code inspects (a body, a substring, a pattern) is a      *)
(* sequence of one-character strings.  An error is its text, Nil if none.  *)
(***************************************************************************)
Response(status, headers, body, responseTime, err) ==
    [StatusCode |-> status, Headers |-> headers, Body |-> body,
     ResponseTime |-> responseTime, ContentLength |-> Len(body), Error |-> err]

\* the empty map[string]string
NoHeaders == [h \in {} |-> ""]

\* HTTPClient.createErrorResponse: status 0, no headers, empty body, the error
createErrorResponse(err, responseTime) ==
    [StatusCode |-> 0, Headers |-> NoHeaders, Body |-> << >>,
     ResponseTime |-> responseTime, ContentLength |-> 0, Error |-> err]

ValidationResult(passed, errorType, message) ==
    [Passed |-> passed, ErrorType |-> errorType, Message |-> message]

PassedResult == ValidationResult(TRUE, "", << >>)

\* strings.Contains(s, sub)
Contains(s, sub) ==
    \E i \in 0..(Len(s) - Len(sub)) : SubSeq(s, i + 1, i + Len(sub)) = sub

\* time.ParseDuration on the duration strings of the model: the parsed value
\* in milliseconds, or an error for a string that is no duration
ParseDuration(str) ==
    CASE str = "0s"  -> [err |-> FALSE, d |-> 0]
      [] str = "1ms" -> [err |-> FALSE, d |-> 1]
      [] str = "2ms" -> [err |-> FALSE, d |-> 2]
      [] str = "3ms" -> [err |-> FALSE, d |-> 3]
      [] OTHER       -> [err |-> TRUE, d |-> 0]

\* Duration.String() on the durations of the model (inverse of ParseDuration)
DurationString(d) ==
    CASE d = 0 -> "0s"
      [] d = 1 -> "1ms"
      [] d = 2 -> "2ms"
      [] d = 3 -> "3ms"
      [] OTHER -> ToString(d)

\* regexp.MatchString(pattern, body) for the patterns of the model: literal
\* characters, optionally anchored by a leading "^" and a trailing "$"; a
\* pattern with an unclosed "(" does not compile (err).
RegexMatchString(pattern, body) ==
    LET opens  == Cardinality({i \in 1..Len(pattern) : pattern[i] = "("})
        closes == Cardinality({i \in 1..Len(pattern) : pattern[i] = ")"})
        head   == Len(pattern) > 0 /\ pattern[1] = "^"
        p1     == IF head THEN SubSeq(pattern, 2, Len(pattern)) ELSE pattern
        tail   == Len(p1) > 0 /\ p1[Len(p1)] = "$"
        lit    == IF tail THEN SubSeq(p1, 1, Len(p1) - 1) ELSE p1
    IN  IF opens # closes THEN [err |-> TRUE, matched |-> FALSE]
        ELSE [err |-> FALSE,
              matched |->
                 \E i \in 0..(Len(body) - Len(lit)) :
                    /\ SubSeq(body, i + 1, i + Len(lit)) = lit
                    /\ head => i = 0
                    /\ tail => i + Len(lit) = Len(body)]

\* gjson.GetBytes(body, jsonPath).Exists() for the bodies of the model: a body
\* "{k...}" is a JSON object whose keys are the characters between the braces,
\* and a path is one key.
validateJSONPath(body, jsonPath) ==
    IF Len(body) = 0 THEN FALSE
    ELSE /\ Len(body) >= 2
         /\ body[1] = "{"
         /\ body[Len(body)] = "}"
         /\ Len(jsonPath) = 1
         /\ \E i \in 2..(Len(body) - 1) : body[i] = jsonPath[1]

\* validateStatusCode with an empty allow-list taken as the default <<200>>
validateStatusCodeDefault200(config, statusCode) ==
    IF statusCode = 200 \/ \E i \in 1..Len(config.StatusCodes) : statusCode = config.StatusCodes[i]
    THEN PassedResult
    ELSE ValidationResult(FALSE, "status_code",
                          <<"expected status codes, got", ToString(statusCode)>>)

validateStatusCode(config, statusCode) ==
    IF Len(config.StatusCodes) = 0 THEN PassedResult
    ELSE IF \E i \in 1..Len(config.StatusCodes) : statusCode = config.StatusCodes[i]
         THEN PassedResult
         ELSE ValidationResult(FALSE, "status_code",
                               <<"expected status codes, got", ToString(statusCode)>>)

validateResponseTime(config, responseTime) ==
    IF config.ResponseTimeMax = "" THEN PassedResult
    ELSE LET parsed == ParseDuration(config.ResponseTimeMax)
         IN  IF parsed.err
             THEN ValidationResult(FALSE, "config_error",
                                   <<"invalid response_time_max format", config.ResponseTimeMax>>)
             ELSE IF responseTime > parsed.d
                  THEN ValidationResult(FALSE, "response_time",
                                        <<"response time exceeds maximum", ToString(responseTime)>>)
                  ELSE PassedResult

validateResponseSize(config, size) ==
    IF config.MinResponseSize > 0 /\ size < config.MinResponseSize
    THEN ValidationResult(FALSE, "response_size",
                          <<"response size is below minimum", ToString(size)>>)
    ELSE IF config.MaxResponseSize > 0 /\ size > config.MaxResponseSize
         THEN ValidationResult(FALSE, "response_size",
                               <<"response size exceeds maximum", ToString(size)>>)
         ELSE PassedResult

validateBody(config, body) ==
    LET missing   == {i \in 1..Len(config.BodyContains) :
                         ~Contains(body, config.BodyContains[i])}
        forbidden == {i \in 1..Len(config.BodyNotContains) :
                         Contains(body, config.BodyNotContains[i])}
        firstOf(S) == CHOOSE i \in S : \A j \in S : i <= j
        regex     == RegexMatchString(config.BodyRegex, body)
    IN  IF missing # {}
        THEN ValidationResult(FALSE, "body_content",
                 <<"response body does not contain required string">>
                     \o config.BodyContains[firstOf(missing)])
        ELSE IF forbidden # {}
        THEN ValidationResult(FALSE, "body_content",
                 <<"response body contains forbidden string">>
                     \o config.BodyNotContains[firstOf(forbidden)])
        ELSE IF config.BodyRegex # << >> /\ regex.err
        THEN ValidationResult(FALSE, "config_error",
                 <<"invalid body regex pattern">> \o config.BodyRegex)
        ELSE IF config.BodyRegex # << >> /\ ~regex.matched
        THEN ValidationResult(FALSE, "body_regex",
                 <<"response body does not match regex pattern">> \o config.BodyRegex)
        ELSE IF config.BodyJSONPath # << >> /\ ~validateJSONPath(body, config.BodyJSONPath)
        THEN ValidationResult(FALSE, "body_json_path",
                 <<"JSON path not found or invalid">> \o config.BodyJSONPath)
        ELSE PassedResult

\* what the check of one expected header gives
HeaderCheck(config, headers, h) ==
    IF h \notin DOMAIN headers
    THEN ValidationResult(FALSE, "header_missing", <<"required header missing", h>>)
    ELSE IF headers[h] # config.Headers[h]
         THEN ValidationResult(FALSE, "header_value",
                               <<"header has unexpected value", h, config.Headers[h], headers[h]>>)
         ELSE PassedResult

\* validateHeaders ranges over the map config.Headers, whose iteration order Go
\* leaves unspecified, and returns at the first header that fails: the results
\* it can give are the failures of the failing headers, or a pass if none fails
validateHeaders(config, headers) ==
    LET failing == {h \in DOMAIN config.Headers : ~HeaderCheck(config, headers, h).Passed}
    IN  IF failing = {} THEN {PassedResult}
        ELSE {HeaderCheck(config, headers, h) : h \in failing}

\* Validate that reports a transport failure without a kind
ValidateKindlessRequestError(config, resp) ==
    IF resp.Error # Nil
    THEN {ValidationResult(FALSE, "", <<resp.Error>>)}
    ELSE IF ~validateStatusCode(config, resp.StatusCode).Passed
    THEN {validateStatusCode(config, resp.StatusCode)}
    ELSE IF ~validateResponseTime(config, resp.ResponseTime).Passed
    THEN {validateResponseTime(config, resp.ResponseTime)}
    ELSE IF ~validateResponseSize(config, resp.ContentLength).Passed
    THEN {validateResponseSize(config, resp.ContentLength)}
    ELSE IF ~validateBody(config, resp.Body).Passed
    THEN {validateBody(config, resp.Body)}
    ELSE validateHeaders(config, resp.Headers)

\* ResponseValidator.Validate: the set of results a call can return
Validate(config, resp) ==
    IF resp.Error # Nil
    THEN {ValidationResult(FALSE, "request_error", <<resp.Error>>)}
    ELSE IF ~validateStatusCode(config, resp.StatusCode).Passed
    THEN {validateStatusCode(config, resp.StatusCode)}
    ELSE IF ~validateResponseTime(config, resp.ResponseTime).Passed
    THEN {validateResponseTime(config, resp.ResponseTime)}
    ELSE IF ~validateResponseSize(config, resp.ContentLength).Passed
    THEN {validateResponseSize(config, resp.ContentLength)}
    ELSE IF ~validateBody(config, resp.Body).Passed
    THEN {validateBody(config, resp.Body)}
    ELSE validateHeaders(config, resp.Headers)

\* validation.ValidationOverrides; an absent text is the empty text, an absent
\* time is 0
ValidationOverrides(expectStatus, expectResponseTime, expectBody, expectBodyNot) ==
    [ExpectStatus |-> expectStatus, ExpectResponseTime |-> expectResponseTime,
     ExpectBody |-> expectBody, ExpectBodyNot |-> expectBodyNot]

\* tempConfig with an expected body added to the required strings, not
\* replacing them
tempConfigAppending(config, overrides) ==
    [config EXCEPT
        !.StatusCodes     = IF Len(overrides.ExpectStatus) > 0
                            THEN overrides.ExpectStatus ELSE @,
        !.ResponseTimeMax = IF overrides.ExpectResponseTime > 0
                            THEN DurationString(overrides.ExpectResponseTime) ELSE @,
        !.BodyContains    = IF overrides.ExpectBody # << >>
                            THEN @ \o <<overrides.ExpectBody>> ELSE @,
        !.BodyNotContains = IF overrides.ExpectBodyNot # << >>
                            THEN <<overrides.ExpectBodyNot>> ELSE @]

\* ValidateWithOverrides: tempConfig, the copy of *v.config with the
\* overrides that are present written over its fields
tempConfig(config, overrides) ==
    [config EXCEPT
        !.StatusCodes     = IF Len(overrides.ExpectStatus) > 0
                            THEN overrides.ExpectStatus ELSE @,
        !.ResponseTimeMax = IF overrides.ExpectResponseTime > 0
                            THEN DurationString(overrides.ExpectResponseTime) ELSE @,
        !.BodyContains    = IF overrides.ExpectBody # << >>
                            THEN <<overrides.ExpectBody>> ELSE @,
        !.BodyNotContains = IF overrides.ExpectBodyNot # << >>
                            THEN <<overrides.ExpectBodyNot>> ELSE @]

\* ResponseValidator.ValidateWithOverrides: the set of results a call can
\* return; it validates with a temporary validator on tempConfig
ValidateWithOverrides(config, resp, overrides) ==
    Validate(tempConfig(config, overrides), resp)

\* config.ValidationConfig
ValidationConfig(statusCodes, responseTimeMax, bodyContains, bodyNotContains, bodyRegex, bodyJSONPath, headers, minSize, maxSize) ==
    [StatusCodes |-> statusCodes, ResponseTimeMax |-> responseTimeMax,
     BodyContains |-> bodyContains, BodyNotContains |-> bodyNotContains,
     BodyRegex |-> bodyRegex, BodyJSONPath |-> bodyJSONPath,
     Headers |-> headers, MinResponseSize |-> minSize, MaxResponseSize |-> maxSize]

\* Scenario.GetValidationConfig for a scenario without a validation block
DefaultValidationConfig ==
    ValidationConfig(<<200>>, "", << >>, << >>, << >>, << >>, NoHeaders, 0, 0)

(***************************************************************************)
(* The metrics Collector: the pure parts of its methods.                   *)
(***************************************************************************)
\* m[k]++ on a Go map: an absent key counts from 0
MapInc(m, k) ==
    IF k \in DOMAIN m THEN [m EXCEPT ![k] = @ + 1] ELSE m @@ (k :> 1)

\* the empty map
EmptyMap == [k \in {} |-> 0]

\* NewCollector
NewCollector ==
    [totalRequests |-> 0, successfulRequests |-> 0, failedRequests |-> 0,
     totalBytes |-> 0,
     latencies |-> << >>, minLatency |-> 0, maxLatency |-> 0, totalLatency |-> 0,
     statusCodes |-> EmptyMap, errors |-> EmptyMap,
     startTime |-> 0, endTime |-> 0,
     validationResults |->
         [TotalValidations |-> 0, PassedValidations |-> 0, FailedValidations |-> 0,
          ValidationErrors |-> EmptyMap]]

\* the body of Collector.updateLatency
updateLatency(c, latency) ==
    [c EXCEPT !.latencies = Append(@, latency),
              !.totalLatency = @ + latency,
              !.minLatency = IF c.minLatency = 0 \/ latency < c.minLatency
                             THEN latency ELSE @,
              !.maxLatency = IF latency > c.maxLatency THEN latency ELSE @]

\* updateStatusCode that counts the status code twice
updateStatusCodeTwice(c, statusCode) ==
    [c EXCEPT !.statusCodes = MapInc(MapInc(@, statusCode), statusCode)]

\* the body of Collector.updateStatusCode
updateStatusCode(c, statusCode) ==
    [c EXCEPT !.statusCodes = MapInc(@, statusCode)]

\* the body of Collector.recordError
recordError(c, err) ==
    IF err = Nil THEN c ELSE [c EXCEPT !.errors = MapInc(@, err)]

\* IsFailure with the transport failure forgotten: only the status decides
IsFailureByStatus(resp) == resp.StatusCode >= 400

\* the branch of RecordResponse that counts the response as failed
IsFailure(resp) == resp.Error # Nil \/ resp.StatusCode >= 400

\* s with the elements at i and j exchanged
Swap(s, i, j) == [s EXCEPT ![i] = s[j], ![j] = s[i]]

RECURSIVE SortInner(_, _, _)
\* the inner loop "for j := i + 1; j < len; j++" of the sort, from j on
SortInner(s, i, j) ==
    IF j > Len(s) THEN s
    ELSE SortInner(IF s[i] > s[j] THEN Swap(s, i, j) ELSE s, i, j + 1)

RECURSIVE SortOuter(_, _)
\* the outer loop "for i := 0; i < len; i++" of the sort, from i on
SortOuter(s, i) ==
    IF i > Len(s) THEN s ELSE SortOuter(SortInner(s, i, i + 1), i + 1)

\* the sorted copy that calculateLatencyStats and CalculatePercentile make
SortDurations(s) == SortOuter(s, 1)

\* PercentileIndex with the rank taken of n instead of n - 1
PercentileIndexOfLen(n, permille) ==
    LET index == (n * permille) \div 1000
    IN  IF index >= n THEN n - 1 ELSE index

\* int(float64(n - 1) * percentile / 100), the percentile given in tenths of a
\* percent (999 is 99.9); then the clamp to the last index
PercentileIndex(n, permille) ==
    LET index == ((n - 1) * permille) \div 1000
    IN  IF index >= n THEN n - 1 ELSE index

\* Collector.calculatePercentile (the slice index is 0-based)
calculatePercentile(sortedLatencies, permille) ==
    IF Len(sortedLatencies) = 0 THEN 0
    ELSE sortedLatencies[PercentileIndex(Len(sortedLatencies), permille) + 1]

\* utils.CalculatePercentile
CalculatePercentile(durations, permille) ==
    IF Len(durations) = 0 THEN 0
    ELSE LET sorted == SortDurations(durations)
         IN  sorted[PercentileIndex(Len(sorted), permille) + 1]

\* a nil *LatencyStats
NilLatency ==
    [isNil |-> TRUE, Min |-> 0, Max |-> 0, Mean |-> 0, Median |-> 0,
     P90 |-> 0, P95 |-> 0, P99 |-> 0, P99_9 |-> 0]

\* Collector.calculateLatencyStats, called with len(c.latencies) > 0
calculateLatencyStats(c) ==
    LET sortedLatencies == SortDurations(c.latencies)
    IN  [isNil  |-> FALSE,
         Min    |-> c.minLatency,
         Max    |-> c.maxLatency,
         Mean   |-> c.totalLatency \div Len(c.latencies),
         Median |-> calculatePercentile(sortedLatencies, 500),
         P90    |-> calculatePercentile(sortedLatencies, 900),
         P95    |-> calculatePercentile(sortedLatencies, 950),
         P99    |-> calculatePercentile(sortedLatencies, 990),
         P99_9  |-> calculatePercentile(sortedLatencies, 999)]

\* BuildSummary whose throughput is computed without the start and stop times
BuildSummaryUntimed(c, total, successful, failed, bytes) ==
    [isNil              |-> FALSE,
     TotalRequests      |-> total,
     SuccessfulRequests |-> successful,
     FailedRequests     |-> failed,
     TotalBytes         |-> bytes,
     StatusCodes        |-> c.statusCodes,
     Errors             |-> c.errors,
     ValidationResults  |-> "c.validationResults",
     Latency            |-> IF Len(c.latencies) > 0
                            THEN calculateLatencyStats(c) ELSE NilLatency,
     SuccessRate        |-> IF total > 0 THEN Rat(successful * 100, total)
                            ELSE Rat(0, 1),
     RequestsPerSecond  |-> Rat(total, 1),
     BytesPerSecond     |-> Rat(bytes, 1)]

\* GetSummary, given the four counters it loaded atomically: the copies of the
\* maps, the latency table and the rates.  A float64 is the rational [n, d];
\* ValidationResults is the Collector's own pointer, not a copy.
BuildSummary(c, total, successful, failed, bytes) ==
    LET window == c.endTime - c.startTime
        timed  == c.startTime # 0 /\ c.endTime # 0 /\ window > 0
    IN  [isNil              |-> FALSE,
         TotalRequests      |-> total,
         SuccessfulRequests |-> successful,
         FailedRequests     |-> failed,
         TotalBytes         |-> bytes,
         StatusCodes        |-> c.statusCodes,
         Errors             |-> c.errors,
         ValidationResults  |-> "c.validationResults",
         Latency            |-> IF Len(c.latencies) > 0
                                THEN calculateLatencyStats(c) ELSE NilLatency,
         SuccessRate        |-> IF total > 0 THEN Rat(successful * 100, total)
                                ELSE Rat(0, 1),
         RequestsPerSecond  |-> IF timed THEN Rat(total, window) ELSE Rat(0, 1),
         BytesPerSecond     |-> IF timed THEN Rat(bytes, window) ELSE Rat(0, 1)]

\* no Summary (a nil *Summary)
NoSummary == [isNil |-> TRUE]

(***************************************************************************)
(* The scenario file (internal/config): Scenario, its Validate and the     *)
(* defaults of its blocks.  An error is its text, Nil if none; a block     *)
(* that the file does not have is a nil pointer (isNil).                   *)
(***************************************************************************)
\* a nil *RetryConfig
NoRetry == [isNil |-> TRUE]

\* config.RetryConfig
RetryConfig(attempts, backoff, maxDelay) ==
    [isNil |-> FALSE, Attempts |-> attempts, Backoff |-> backoff, MaxDelay |-> maxDelay]

\* a nil *ValidationConfig
NoValidation == [isNil |-> TRUE]

\* a *ValidationConfig that points to the block
ValidationBlock(block) == [isNil |-> FALSE, block |-> block]

\* config.Scenario: the fields that Validate and the engine read
Scenario(name, method, url, baseURL, timeout, retry, validation) ==
    [Name |-> name, Method |-> method, URL |-> url, BaseURL |-> baseURL,
     Timeout |-> timeout, Retry |-> retry, Validation |-> validation]

validMethods == {"GET", "POST", "PUT", "DELETE", "PATCH", "HEAD", "OPTIONS"}

validBackoffs == {"linear", "exponential", "fixed"}

\* RetryConfig.Validate that takes ten attempts for too many
RetryConfigValidateBelowTen(r) ==
    IF r.Attempts < 0 THEN "retry attempts must be non-negative"
    ELSE IF r.Attempts >= 10 THEN "retry attempts cannot exceed 10"
    ELSE IF r.Backoff # "" /\ r.Backoff \notin validBackoffs
    THEN "invalid backoff strategy"
    ELSE IF r.MaxDelay # "" /\ ParseDuration(r.MaxDelay).err
    THEN "invalid max_delay format"
    ELSE Nil

RetryConfigValidate(r) ==
    IF r.Attempts < 0 THEN "retry attempts must be non-negative"
    ELSE IF r.Attempts > 10 THEN "retry attempts cannot exceed 10"
    ELSE IF r.Backoff # "" /\ r.Backoff \notin validBackoffs
    THEN "invalid backoff strategy"
    ELSE IF r.MaxDelay # "" /\ ParseDuration(r.MaxDelay).err
    THEN "invalid max_delay format"
    ELSE Nil

ValidationConfigValidate(v) ==
    IF \E i \in 1..Len(v.StatusCodes) : v.StatusCodes[i] < 100 \/ v.StatusCodes[i] > 599
    THEN "invalid status code"
    ELSE IF v.ResponseTimeMax # "" /\ ParseDuration(v.ResponseTimeMax).err
    THEN "invalid response_time_max format"
    ELSE IF v.MinResponseSize < 0
    THEN "min_response_size must be non-negative"
    ELSE IF v.MaxResponseSize > 0 /\ v.MinResponseSize > v.MaxResponseSize
    THEN "min_response_size cannot be greater than max_response_size"
    ELSE Nil

ScenarioValidate(s) ==
    IF s.Name = "" THEN "scenario name is required"
    ELSE IF s.Method = "" THEN "scenario method is required"
    ELSE IF s.URL = "" THEN "scenario URL is required"
    ELSE IF s.BaseURL = "" THEN "scenario base_url is required"
    ELSE IF s.Method \notin validMethods THEN "invalid HTTP method"
    ELSE IF s.Timeout # "" /\ ParseDuration(s.Timeout).err
    THEN "invalid timeout format"
    ELSE IF ~s.Retry.isNil /\ RetryConfigValidate(s.Retry) # Nil
    THEN "retry config validation failed"
    ELSE IF ~s.Validation.isNil /\ ValidationConfigValidate(s.Validation.block) # Nil
    THEN "validation config validation failed"
    ELSE Nil

\* LoadScenarioFromFile on a file that holds the JSON of the scenario s
LoadScenarioFromFile(s) ==
    IF ScenarioValidate(s) # Nil THEN "scenario validation failed" ELSE Nil

\* GetValidationConfig that gives a block without status codes the default ones
GetValidationConfigFillingIn(s) ==
    IF s.Validation.isNil \/ s.Validation.block.StatusCodes = << >>
    THEN [(IF s.Validation.isNil THEN DefaultValidationConfig ELSE s.Validation.block)
             EXCEPT !.StatusCodes = <<200>>]
    ELSE s.Validation.block

\* Scenario.GetValidationConfig
GetValidationConfig(s) ==
    IF s.Validation.isNil THEN DefaultValidationConfig ELSE s.Validation.block

\* a scenario that Validate accepts, without retry and validation blocks
PlainScenario == Scenario("get", "GET", "/x", "http://h", "", NoRetry, NoValidation)

(***************************************************************************)
(* The state of a run.                                                     *)
(***************************************************************************)
VARIABLES
    config,      \* the LoadTestConfig of the run (never changes)
    conv,        \* what the build's float64 -> int64 conversion does with +Inf
    validator,   \* the ValidationConfig of the engine's ResponseValidator
    ctxErr,      \* e.ctx.Err(): "" while the context is live
    runPc,       \* where LoadEngine.Run is
    launched,    \* how many workers Run has started with "go worker.Run"
    wpc,         \* where each worker goroutine is
    requests,    \* Worker.requests of each worker
    resp,        \* the response a worker's executeRequest holds
    vres,        \* the ValidationResult a worker's RecordResponse holds
    collector,   \* the fields of the metrics Collector
    muReaders,   \* the number of holders of Collector.mu.RLock
    closed,      \* the protocol client has been closed
    summary,     \* the Summary that Run returned
    rpc,         \* where the live reporter's GetSummary is
    rsum,        \* the counters the live reporter's GetSummary has loaded
    clock,       \* the time since NewLoadEngine created the run's context
    pace,        \* what each worker's last calculateDelay computed
    scenario,    \* the Scenario that the scenario file holds
    loadErr,     \* the error of LoadScenarioFromFile, Nil if none
    metrics,     \* the HTTPClient's own Metrics
    reg,         \* the value each worker read for the update it is making
    calls,       \* the Execute calls that returned, and those with a response
    exit         \* the exit of the run command

vars == <<config, conv, validator, ctxErr, runPc, launched, wpc, requests, resp,
          vres, collector, muReaders, closed, summary, rpc, rsum, clock, pace,
          scenario, loadErr, metrics, reg, calls, exit>>

\* the variables of the loading of the scenario
loaderVars == <<scenario, loadErr>>

\* the variables of the HTTP client
clientVars == <<metrics, reg, calls>>

\* the variables of the live reporter
reporterVars == <<rpc, rsum>>

\* the variables of the engine other than the Collector and the workers
engineVars == <<config, conv, validator, ctxErr, runPc, launched, closed, summary>>

\* largest time between the two clock reads of calculateDelay that is drawn
MaxJitter == 1

\* no response held (a worker outside executeRequest)
NoResponse == [isNil |-> TRUE]
\* no validation result held
NoResult == [isNil |-> TRUE]
\* no pacing delay computed (a worker outside the head of its loop)
NoPacing == [isNil |-> TRUE]

\* runtime.NumCPU() on the machine of the model
NumCPU == NumWorkers

\* config.LoadTestConfig: the fields the engine and the workers read, and the
\* fields of the virtual users, of the workers and of the validation overrides,
\* here with the values of a run of one virtual user per CPU, without
\* overrides and with the default Workers = 0
LoadTestConfig(pattern, duration, rampUp, rampDown, delay, maxRequests) ==
    [Pattern |-> pattern, Duration |-> duration, RampUp |-> rampUp,
     RampDown |-> rampDown, Delay |-> delay, MaxRequests |-> maxRequests,
     VirtualUsers |-> NumCPU, Workers |-> 0,
     ExpectStatus |-> << >>, ExpectBody |-> << >>, ExpectBodyNot |-> << >>,
     ExpectResponseTime |-> 0]

\* a steady run shorter than its ramp-up, with a static delay (the default
\* ramp-up is 10s: any run of less than 10s with the default flags), of more
\* virtual users than the machine has CPUs, that expects the status 500
ShortRun(maxRequests) ==
    [LoadTestConfig("steady", 1, 2, 0, 1, maxRequests)
        EXCEPT !.VirtualUsers = NumCPU + 1, !.ExpectStatus = <<500>>]

\* a steady run longer than its ramps, without static delay, with the number
\* of workers given
LongRun(maxRequests) ==
    [LoadTestConfig("steady", 4, 1, 1, 0, maxRequests) EXCEPT !.Workers = NumWorkers]

\* NewLoadEngine: the number of workers it creates
WorkerCount(cfg) == IF cfg.Workers = 0 THEN NumCPU ELSE cfg.Workers

\* the runs Init draws: a configuration, and the build that runs it
RunSetups ==
    { [config |-> LongRun(m), conv |-> "indefinite"] : m \in 0..MaxRequestsBound }
    \cup { [config |-> ShortRun(m), conv |-> c] :
               m \in 0..MaxRequestsBound, c \in {"saturate", "indefinite"} }

\* the HTTP responses a server gives in the model, after 1 and 2 ms
HTTPResponses ==
    { Response(200, NoHeaders, <<"o", "k">>, 1, Nil),
      Response(500, NoHeaders, << >>, 2, Nil) }

\* the texts of the errors of http.Client.Do once its context is done
CtxErrorText(err) ==
    IF err = "canceled" THEN "context canceled" ELSE "context deadline exceeded"

\* Execute whose call on a context that is done can still get a response
ExecuteSucceedingOnDoneContext(started, err) ==
    LET failures == {"connection refused"}
                      \cup (IF err # "" THEN {CtxErrorText(err)} ELSE {})
    IN  {createErrorResponse(e, 0) : e \in failures} \cup HTTPResponses

\* HTTPClient.Execute: the responses a call can return.  started is whether
\* the context was live when the call began: http.Client.Do fails at once on a
\* context that is done, and may fail with the context's error once it is done.
\* A failure is measured as 0 ms (time.Since(start) within the clock's
\* resolution).
Execute(started, err) ==
    LET failures == {"connection refused"}
                      \cup (IF err # "" THEN {CtxErrorText(err)} ELSE {})
        live     == {createErrorResponse(e, 0) : e \in failures} \cup HTTPResponses
        dead     == {createErrorResponse(CtxErrorText(err), 0)}
    IN  IF started THEN live ELSE dead

\* the override fields of a LoadTestConfig as ValidationOverrides
OverridesOf(cfg) ==
    ValidationOverrides(cfg.ExpectStatus, cfg.ExpectResponseTime,
                        cfg.ExpectBody, cfg.ExpectBodyNot)

\* NewHTTPClient: the client's Metrics are zero
NewMetrics == [TotalRequests |-> 0, SuccessfulRequests |-> 0, FailedRequests |-> 0]

\* the HTTP client once NewHTTPClient has returned it: no call has been made
ClientCreated ==
    /\ metrics = NewMetrics
    /\ reg = [w \in Workers |-> 0]
    /\ calls = [returned |-> 0, responded |-> 0]

\* the run command has not exited
NotExited == [exited |-> FALSE, code |-> 0, reported |-> FALSE]

\* the state once NewLoadEngine has returned the engine of the run `setup`
EngineCreated(setup) ==
    /\ config = setup.config
    /\ conv = setup.conv
    /\ validator = DefaultValidationConfig
    /\ ctxErr = ""
    /\ runPc = "created"
    /\ launched = 0
    /\ wpc = [w \in Workers |-> "idle"]
    /\ requests = [w \in Workers |-> 0]
    /\ resp = [w \in Workers |-> NoResponse]
    /\ vres = [w \in Workers |-> NoResult]
    /\ collector = NewCollector
    /\ muReaders = 0
    /\ closed = FALSE
    /\ summary = NoSummary
    /\ rpc = "idle"
    /\ rsum = NoSummary
    /\ clock = 0
    /\ pace = [w \in Workers |-> NoPacing]
    /\ scenario = PlainScenario
    /\ loadErr = Nil
    /\ ClientCreated
    /\ exit = NotExited

Init == \E setup \in RunSetups : EngineCreated(setup)

(***************************************************************************)
(* The shared context: its deadline, and LoadEngine.Stop.                  *)
(***************************************************************************)
\* the timer of context.WithTimeout(context.Background(), cfg.Duration) fires
DeadlineFire ==
    /\ ctxErr = ""
    /\ ctxErr' = "deadline exceeded"
    /\ UNCHANGED <<config, conv, loaderVars, clientVars, exit, clock, pace, validator, runPc, launched, wpc, requests, resp,
                   vres, collector, muReaders, closed, summary, rpc, rsum>>

\* Stop with the cancellation overwriting the error of a context that is done
StopOverwrites ==
    /\ ctxErr' = "canceled"
    /\ UNCHANGED <<config, conv, loaderVars, clientVars, exit, clock, pace, validator, runPc, launched, wpc, requests, resp,
                   vres, collector, muReaders, closed, summary, rpc, rsum>>

\* LoadEngine.Stop: e.cancel(); cancelling a context that is done changes nothing
Stop ==
    /\ ctxErr' = IF ctxErr = "" THEN "canceled" ELSE ctxErr
    /\ UNCHANGED <<config, conv, loaderVars, clientVars, exit, clock, pace, validator, runPc, launched, wpc, requests, resp,
                   vres, collector, muReaders, closed, summary, rpc, rsum>>

(***************************************************************************)
(* LoadEngine.Run (the goroutine that called it).                          *)
(***************************************************************************)
\* e.collector.Start(): under mu.Lock, startTime = time.Now(), the instant 1
RunStart ==
    /\ runPc = "created"
    /\ muReaders = 0
    /\ collector' = [collector EXCEPT !.startTime = 1]
    /\ runPc' = "launch"
    /\ UNCHANGED <<config, conv, loaderVars, clientVars, exit, clock, pace, validator, ctxErr, launched, wpc, requests, resp,
                   vres, muReaders, closed, summary, rpc, rsum>>

\* one turn of "for _, worker := range e.workers": e.wg.Add(1); go worker.Run
RunLaunch ==
    /\ runPc = "launch"
    /\ launched < WorkerCount(config)
    /\ launched' = launched + 1
    /\ wpc' = [wpc EXCEPT ![launched + 1] = "poll"]
    /\ runPc' = IF launched + 1 = WorkerCount(config) THEN "wait" ELSE "launch"
    /\ UNCHANGED <<config, conv, loaderVars, clientVars, exit, clock, pace, validator, ctxErr, requests, resp, vres,
                   collector, muReaders, closed, summary, rpc, rsum>>

\* RunWaitDone with a select that also returns once every worker has terminated
RunWaitDoneWhenWorkersDone ==
    /\ runPc = "wait"
    /\ ctxErr # "" \/ \A w \in Workers : wpc[w] = "done"
    /\ runPc' = "stop"
    /\ UNCHANGED <<config, conv, loaderVars, clientVars, exit, clock, pace, validator, ctxErr, launched, wpc, requests, resp,
                   vres, collector, muReaders, closed, summary, rpc, rsum>>

\* select: case <-e.ctx.Done()
RunWaitDone ==
    /\ runPc = "wait"
    /\ ctxErr # ""
    /\ runPc' = "stop"
    /\ UNCHANGED <<config, conv, loaderVars, clientVars, exit, clock, pace, validator, ctxErr, launched, wpc, requests, resp,
                   vres, collector, muReaders, closed, summary, rpc, rsum>>

\* RunWaitTimeout with a timer that can fire while the context is live
RunWaitTimeoutEarly ==
    /\ runPc = "wait"
    /\ runPc' = "stop after timeout"
    /\ UNCHANGED <<config, conv, loaderVars, clientVars, exit, clock, pace, validator, ctxErr, launched, wpc, requests, resp,
                   vres, collector, muReaders, closed, summary, rpc, rsum>>

\* select: case <-time.After(e.config.Duration + 5*time.Second).  The timer is
\* set to fire 5s after the deadline of e.ctx at the earliest (the context was
\* made, with the same duration, before Run was called), so the context is done
\* when it fires; select then picks either ready case.
RunWaitTimeout ==
    /\ runPc = "wait"
    /\ ctxErr # ""
    /\ runPc' = "stop after timeout"
    /\ UNCHANGED <<config, conv, loaderVars, clientVars, exit, clock, pace, validator, ctxErr, launched, wpc, requests, resp,
                   vres, collector, muReaders, closed, summary, rpc, rsum>>

\* e.collector.Stop(): under mu.Lock, endTime = time.Now()
RunCollectorStop ==
    /\ runPc \in {"stop", "stop after timeout"}
    /\ muReaders = 0
    /\ \E now \in collector.startTime..MaxTime :
          collector' = [collector EXCEPT !.endTime = now]
    /\ runPc' = "join"
    /\ UNCHANGED <<config, conv, loaderVars, clientVars, exit, clock, pace, validator, ctxErr, launched, wpc, requests, resp,
                   vres, muReaders, closed, summary, rpc, rsum>>

\* RunJoin that does not wait for the workers
RunJoinWithoutWait ==
    /\ runPc = "join"
    /\ runPc' = "close"
    /\ UNCHANGED <<config, conv, loaderVars, clientVars, exit, clock, pace, validator, ctxErr, launched, wpc, requests, resp,
                   vres, collector, muReaders, closed, summary, rpc, rsum>>

\* e.wg.Wait() returns: every worker has called wg.Done
RunJoin ==
    /\ runPc = "join"
    /\ \A w \in Workers : wpc[w] = "done"
    /\ runPc' = "close"
    /\ UNCHANGED <<config, conv, loaderVars, clientVars, exit, clock, pace, validator, ctxErr, launched, wpc, requests, resp,
                   vres, collector, muReaders, closed, summary, rpc, rsum>>

\* e.protocol.Close()
RunClose ==
    /\ runPc = "close"
    /\ closed' = TRUE
    /\ runPc' = "summary"
    /\ UNCHANGED <<config, conv, loaderVars, clientVars, exit, clock, pace, validator, ctxErr, launched, wpc, requests, resp,
                   vres, collector, muReaders, summary, rpc, rsum>>

\* summary := e.collector.GetSummary(); return summary, nil.  No worker is
\* left to change a counter between the loads of GetSummary.
RunSummary ==
    /\ runPc = "summary"
    /\ summary' = BuildSummary(collector, collector.totalRequests,
                               collector.successfulRequests, collector.failedRequests,
                               collector.totalBytes)
    /\ runPc' = "returned"
    /\ UNCHANGED <<config, conv, loaderVars, clientVars, exit, clock, pace, validator, ctxErr, launched, wpc, requests, resp,
                   vres, collector, muReaders, closed, rpc, rsum>>

(***************************************************************************)
(* Worker.Run and Worker.executeRequest (one goroutine per worker).        *)
(***************************************************************************)
\* ReachedRequestCap with the cap taken for the whole run, not per worker
ReachedRequestCapOfRun(w) ==
    config.MaxRequests > 0 /\ requests[w] >= NumWorkers * config.MaxRequests

\* ReachedRequestCap with the comparison off by one
ReachedRequestCapOffByOne(w) ==
    config.MaxRequests > 0 /\ requests[w] > config.MaxRequests

\* the worker has reached config.MaxRequests
ReachedRequestCap(w) ==
    config.MaxRequests > 0 /\ requests[w] >= config.MaxRequests

\* the requests that have begun or that a worker is committed to begin
Admitted ==
    SumOver(requests, Workers)
        + Cardinality({w \in Workers : wpc[w] \in {"sleep", "request"}})

\* WorkerPoll without the select on the context
WorkerPollIgnoringContext(w) ==
    /\ wpc[w] = "poll"
    /\ IF ReachedRequestCap(w)
       THEN wpc' = [wpc EXCEPT ![w] = "done"]
       ELSE /\ Admitted < MaxTotalRequests
            /\ \E jitter \in 0..MaxJitter :
                  LET delay == calculateDelay(config, calculateLoadPattern(config),
                                              jitter, conv)
                  IN  wpc' = [wpc EXCEPT ![w] = IF DelayPositive(delay)
                                                THEN "sleep" ELSE "request"]
    /\ UNCHANGED <<config, conv, loaderVars, clientVars, exit, clock, pace, validator, ctxErr, runPc, launched, requests, resp,
                   vres, collector, muReaders, closed, summary, rpc, rsum>>

\* WorkerPoll whose select sees the deadline of the context but not Stop
WorkerPollOnDeadlineOnly(w) ==
    /\ wpc[w] = "poll"
    /\ IF ctxErr = "deadline exceeded" \/ ReachedRequestCap(w)
       THEN wpc' = [wpc EXCEPT ![w] = "done"]
       ELSE /\ Admitted < MaxTotalRequests
            /\ \E jitter \in 0..MaxJitter :
                  LET delay == calculateDelay(config, calculateLoadPattern(config),
                                              jitter, conv)
                  IN  wpc' = [wpc EXCEPT ![w] = IF DelayPositive(delay)
                                                THEN "sleep" ELSE "request"]
    /\ UNCHANGED <<config, conv, loaderVars, clientVars, exit, clock, pace, validator,
                   ctxErr, runPc, launched, requests, resp, vres, collector,
                   muReaders, closed, summary, rpc, rsum>>

\* the head of the loop: the select on the context, the request cap, and the
\* pacing delay; the worker returns, sleeps the delay, or goes on to the request
WorkerPoll(w) ==
    /\ wpc[w] = "poll"
    /\ IF ctxErr # "" \/ ReachedRequestCap(w)
       THEN wpc' = [wpc EXCEPT ![w] = "done"]
       ELSE /\ Admitted < MaxTotalRequests
            /\ \E jitter \in 0..MaxJitter :
                  LET delay == calculateDelay(config, calculateLoadPattern(config),
                                              jitter, conv)
                  IN  wpc' = [wpc EXCEPT ![w] = IF DelayPositive(delay)
                                                THEN "sleep" ELSE "request"]
    /\ UNCHANGED <<config, conv, loaderVars, clientVars, exit, clock, pace, validator, ctxErr, runPc, launched, requests, resp,
                   vres, collector, muReaders, closed, summary, rpc, rsum>>

\* time.Sleep(delay) returns
WorkerWake(w) ==
    /\ wpc[w] = "sleep"
    /\ wpc' = [wpc EXCEPT ![w] = "request"]
    /\ UNCHANGED <<config, conv, loaderVars, clientVars, exit, clock, pace, validator, ctxErr, runPc, launched, requests, resp,
                   vres, collector, muReaders, closed, summary, rpc, rsum>>

\* executeRequest up to the call of Execute: w.requests++, CreateRequest,
\* context.WithTimeout(e.ctx, req.Timeout)
WorkerBeginRequest(w) ==
    /\ wpc[w] = "request"
    /\ requests' = [requests EXCEPT ![w] = @ + 1]
    /\ wpc' = [wpc EXCEPT ![w] = IF ctxErr = "" THEN "exec" ELSE "exec on done context"]
    /\ UNCHANGED <<config, conv, loaderVars, clientVars, exit, clock, pace, validator, ctxErr, runPc, launched, resp, vres,
                   collector, muReaders, closed, summary, rpc, rsum>>

\* WorkerExecuteReturn that drops the response of a call that ended with the
\* context's error: nothing is recorded for it
WorkerExecuteReturnDroppingCancelled(w) ==
    /\ wpc[w] \in {"exec", "exec on done context"}
    /\ \E r \in Execute(wpc[w] = "exec", ctxErr) :
          IF r.Error \in {"context canceled", "context deadline exceeded"}
          THEN /\ wpc' = [wpc EXCEPT ![w] = IF config.Delay > 0 THEN "delay" ELSE "poll"]
               /\ UNCHANGED <<resp, vres>>
          ELSE /\ resp' = [resp EXCEPT ![w] = r]
               /\ \E v \in Validate(validator, r) : vres' = [vres EXCEPT ![w] = v]
               /\ wpc' = [wpc EXCEPT ![w] = "rv total"]
    /\ UNCHANGED <<config, conv, loaderVars, clientVars, exit, clock, pace, validator,
                   ctxErr, runPc, launched, requests,
                   collector, muReaders, closed, summary, rpc, rsum>>

\* Execute returns a response; LoadEngine.RecordResponse validates it
WorkerExecuteReturn(w) ==
    /\ wpc[w] \in {"exec", "exec on done context"}
    /\ \E r \in Execute(wpc[w] = "exec", ctxErr) :
          /\ resp' = [resp EXCEPT ![w] = r]
          /\ \E v \in Validate(validator, r) : vres' = [vres EXCEPT ![w] = v]
    /\ wpc' = [wpc EXCEPT ![w] = "rv total"]
    /\ UNCHANGED <<config, conv, loaderVars, clientVars, exit, clock, pace, validator, ctxErr, runPc, launched, requests,
                   collector, muReaders, closed, summary, rpc, rsum>>

\* RecordValidationTotal that leaves TotalValidations as it is
RecordValidationTotalUncounted(w) ==
    /\ wpc[w] = "rv total"
    /\ wpc' = [wpc EXCEPT ![w] = "rv outcome"]
    /\ UNCHANGED <<config, conv, loaderVars, clientVars, exit, clock, pace, validator,
                   ctxErr, runPc, launched, requests, resp, vres, collector,
                   muReaders, closed, summary, rpc, rsum>>

\* RecordValidation: atomic.AddInt64(&TotalValidations, 1)
RecordValidationTotal(w) ==
    /\ wpc[w] = "rv total"
    /\ collector' = [collector EXCEPT !.validationResults.TotalValidations = @ + 1]
    /\ wpc' = [wpc EXCEPT ![w] = "rv outcome"]
    /\ UNCHANGED <<config, conv, loaderVars, clientVars, exit, clock, pace, validator, ctxErr, runPc, launched, requests, resp,
                   vres, muReaders, closed, summary, rpc, rsum>>

\* RecordValidationOutcome that goes on to the bucket whatever the kind
RecordValidationOutcomeAlwaysBucket(w) ==
    /\ wpc[w] = "rv outcome"
    /\ IF vres[w].Passed
       THEN /\ collector' = [collector EXCEPT !.validationResults.PassedValidations = @ + 1]
            /\ wpc' = [wpc EXCEPT ![w] = "rr total"]
       ELSE /\ collector' = [collector EXCEPT !.validationResults.FailedValidations = @ + 1]
            /\ wpc' = [wpc EXCEPT ![w] = "rv bucket"]
    /\ UNCHANGED <<config, conv, loaderVars, clientVars, exit, clock, pace, validator, ctxErr, runPc, launched, requests, resp,
                   vres, muReaders, closed, summary, rpc, rsum>>

\* RecordValidation: atomic.AddInt64 on PassedValidations or FailedValidations
RecordValidationOutcome(w) ==
    /\ wpc[w] = "rv outcome"
    /\ IF vres[w].Passed
       THEN /\ collector' = [collector EXCEPT !.validationResults.PassedValidations = @ + 1]
            /\ wpc' = [wpc EXCEPT ![w] = "rr total"]
       ELSE /\ collector' = [collector EXCEPT !.validationResults.FailedValidations = @ + 1]
            /\ wpc' = [wpc EXCEPT ![w] = IF vres[w].ErrorType # ""
                                          THEN "rv bucket" ELSE "rr total"]
    /\ UNCHANGED <<config, conv, loaderVars, clientVars, exit, clock, pace, validator, ctxErr, runPc, launched, requests, resp,
                   vres, muReaders, closed, summary, rpc, rsum>>

\* RecordValidation: under mu.Lock, ValidationErrors[errorType]++
RecordValidationBucket(w) ==
    /\ wpc[w] = "rv bucket"
    /\ muReaders = 0
    /\ collector' = [collector EXCEPT !.validationResults.ValidationErrors =
                                          MapInc(@, vres[w].ErrorType)]
    /\ wpc' = [wpc EXCEPT ![w] = "rr total"]
    /\ UNCHANGED <<config, conv, loaderVars, clientVars, exit, clock, pace, validator, ctxErr, runPc, launched, requests, resp,
                   vres, muReaders, closed, summary, rpc, rsum>>

\* RecordResponse: atomic.AddInt64(&c.totalRequests, 1)
RecordResponseTotal(w) ==
    /\ wpc[w] = "rr total"
    /\ collector' = [collector EXCEPT !.totalRequests = @ + 1]
    /\ wpc' = [wpc EXCEPT ![w] = "rr bytes"]
    /\ UNCHANGED <<config, conv, loaderVars, clientVars, exit, clock, pace, validator, ctxErr, runPc, launched, requests, resp,
                   vres, muReaders, closed, summary, rpc, rsum>>

\* RecordResponse: atomic.AddInt64(&c.totalBytes, resp.ContentLength)
RecordResponseBytes(w) ==
    /\ wpc[w] = "rr bytes"
    /\ collector' = [collector EXCEPT !.totalBytes = @ + resp[w].ContentLength]
    /\ wpc' = [wpc EXCEPT ![w] = "rr latency"]
    /\ UNCHANGED <<config, conv, loaderVars, clientVars, exit, clock, pace, validator, ctxErr, runPc, launched, requests, resp,
                   vres, muReaders, closed, summary, rpc, rsum>>

\* RecordResponse: c.updateLatency(resp.ResponseTime), under mu.Lock
RecordResponseLatency(w) ==
    /\ wpc[w] = "rr latency"
    /\ muReaders = 0
    /\ collector' = updateLatency(collector, resp[w].ResponseTime)
    /\ wpc' = [wpc EXCEPT ![w] = "rr status"]
    /\ UNCHANGED <<config, conv, loaderVars, clientVars, exit, clock, pace, validator, ctxErr, runPc, launched, requests, resp,
                   vres, muReaders, closed, summary, rpc, rsum>>

\* RecordResponse: c.updateStatusCode(resp.StatusCode), under mu.Lock
RecordResponseStatus(w) ==
    /\ wpc[w] = "rr status"
    /\ muReaders = 0
    /\ collector' = updateStatusCode(collector, resp[w].StatusCode)
    /\ wpc' = [wpc EXCEPT ![w] = "rr outcome"]
    /\ UNCHANGED <<config, conv, loaderVars, clientVars, exit, clock, pace, validator, ctxErr, runPc, launched, requests, resp,
                   vres, muReaders, closed, summary, rpc, rsum>>

\* where the worker goes when executeRequest returns: the static delay or the
\* head of the loop
AfterRequest == IF config.Delay > 0 THEN "delay" ELSE "poll"

\* RecordResponseOutcome that counts the request by its validation result
RecordResponseOutcomeByValidation(w) ==
    /\ wpc[w] = "rr outcome"
    /\ IF ~vres[w].Passed
       THEN /\ collector' = [collector EXCEPT !.failedRequests = @ + 1]
            /\ wpc' = [wpc EXCEPT ![w] = "rr error"]
            /\ UNCHANGED <<resp, vres>>
       ELSE /\ collector' = [collector EXCEPT !.successfulRequests = @ + 1]
            /\ wpc' = [wpc EXCEPT ![w] = AfterRequest]
            /\ resp' = [resp EXCEPT ![w] = NoResponse]
            /\ vres' = [vres EXCEPT ![w] = NoResult]
    /\ UNCHANGED <<config, conv, loaderVars, clientVars, exit, clock, pace, validator, ctxErr, runPc, launched, requests,
                   muReaders, closed, summary, rpc, rsum>>

\* RecordResponseOutcome with the failure branch recording the error only
RecordResponseOutcomeUncounted(w) ==
    /\ wpc[w] = "rr outcome"
    /\ IF IsFailure(resp[w])
       THEN /\ wpc' = [wpc EXCEPT ![w] = "rr error"]
            /\ UNCHANGED <<collector, resp, vres>>
       ELSE /\ collector' = [collector EXCEPT !.successfulRequests = @ + 1]
            /\ wpc' = [wpc EXCEPT ![w] = AfterRequest]
            /\ resp' = [resp EXCEPT ![w] = NoResponse]
            /\ vres' = [vres EXCEPT ![w] = NoResult]
    /\ UNCHANGED <<config, conv, loaderVars, clientVars, exit, clock, pace, validator, ctxErr, runPc, launched, requests,
                   muReaders, closed, summary, rpc, rsum>>

\* RecordResponse: atomic.AddInt64 on failedRequests or successfulRequests
RecordResponseOutcome(w) ==
    /\ wpc[w] = "rr outcome"
    /\ IF IsFailure(resp[w])
       THEN /\ collector' = [collector EXCEPT !.failedRequests = @ + 1]
            /\ wpc' = [wpc EXCEPT ![w] = "rr error"]
            /\ UNCHANGED <<resp, vres>>
       ELSE /\ collector' = [collector EXCEPT !.successfulRequests = @ + 1]
            /\ wpc' = [wpc EXCEPT ![w] = AfterRequest]
            /\ resp' = [resp EXCEPT ![w] = NoResponse]
            /\ vres' = [vres EXCEPT ![w] = NoResult]
    /\ UNCHANGED <<config, conv, loaderVars, clientVars, exit, clock, pace, validator, ctxErr, runPc, launched, requests,
                   muReaders, closed, summary, rpc, rsum>>

\* RecordResponse: c.recordError(resp.Error), which returns at once on a nil
\* error and otherwise counts the error's text under mu.Lock
RecordResponseError(w) ==
    /\ wpc[w] = "rr error"
    /\ resp[w].Error # Nil => muReaders = 0
    /\ collector' = recordError(collector, resp[w].Error)
    /\ wpc' = [wpc EXCEPT ![w] = AfterRequest]
    /\ resp' = [resp EXCEPT ![w] = NoResponse]
    /\ vres' = [vres EXCEPT ![w] = NoResult]
    /\ UNCHANGED <<config, conv, loaderVars, clientVars, exit, clock, pace, validator, ctxErr, runPc, launched, requests,
                   muReaders, closed, summary, rpc, rsum>>

\* time.Sleep(config.Delay) returns
WorkerDelayDone(w) ==
    /\ wpc[w] = "delay"
    /\ wpc' = [wpc EXCEPT ![w] = "poll"]
    /\ UNCHANGED <<config, conv, loaderVars, clientVars, exit, clock, pace, validator, ctxErr, runPc, launched, requests, resp,
                   vres, collector, muReaders, closed, summary, rpc, rsum>>

\* the steps of LoadEngine.Run
RunStep ==
    \/ RunStart
    \/ RunLaunch
    \/ RunWaitDone
    \/ RunWaitTimeout
    \/ RunCollectorStop
    \/ RunJoin
    \/ RunClose
    \/ RunSummary

\* the steps of worker w
WorkerStep(w) ==
    \/ WorkerPoll(w)
    \/ WorkerWake(w)
    \/ WorkerBeginRequest(w)
    \/ WorkerExecuteReturn(w)
    \/ RecordValidationTotal(w)
    \/ RecordValidationOutcome(w)
    \/ RecordValidationBucket(w)
    \/ RecordResponseTotal(w)
    \/ RecordResponseBytes(w)
    \/ RecordResponseLatency(w)
    \/ RecordResponseStatus(w)
    \/ RecordResponseOutcome(w)
    \/ RecordResponseError(w)
    \/ WorkerDelayDone(w)

Next ==
    \/ DeadlineFire
    \/ Stop
    \/ RunStep
    \/ \E w \in Workers : WorkerStep(w)

Spec == Init /\ [][Next]_vars

(***************************************************************************)
(* The live reporter (run --live): a goroutine that calls GetSummary at    *)
(* every tick of its ticker, while the run goes on.                        *)
(***************************************************************************)
\* GetSummary: mu.RLock(), then atomic.LoadInt64(&c.totalRequests)
GetSummaryLoadTotal ==
    /\ rpc = "idle"
    /\ muReaders' = muReaders + 1
    /\ rsum' = [isNil |-> FALSE, TotalRequests |-> collector.totalRequests,
                SuccessfulRequests |-> 0, FailedRequests |-> 0]
    /\ rpc' = "load successful"
    /\ UNCHANGED <<config, conv, loaderVars, clientVars, exit, clock, pace, validator, ctxErr, runPc, launched, wpc, requests,
                   resp, vres, collector, closed, summary>>

\* GetSummary: atomic.LoadInt64(&c.successfulRequests)
GetSummaryLoadSuccessful ==
    /\ rpc = "load successful"
    /\ rsum' = [rsum EXCEPT !.SuccessfulRequests = collector.successfulRequests]
    /\ rpc' = "load failed"
    /\ UNCHANGED <<config, conv, loaderVars, clientVars, exit, clock, pace, validator, ctxErr, runPc, launched, wpc, requests,
                   resp, vres, collector, muReaders, closed, summary>>

\* GetSummary: atomic.LoadInt64(&c.failedRequests)
GetSummaryLoadFailed ==
    /\ rpc = "load failed"
    /\ rsum' = [rsum EXCEPT !.FailedRequests = collector.failedRequests]
    /\ rpc' = "load rest"
    /\ UNCHANGED <<config, conv, loaderVars, clientVars, exit, clock, pace, validator, ctxErr, runPc, launched, wpc, requests,
                   resp, vres, collector, muReaders, closed, summary>>

\* GetSummary: atomic.LoadInt64(&c.totalBytes), the copies and the statistics
\* of what mu guards, mu.RUnlock(), return
GetSummaryReturn ==
    /\ rpc = "load rest"
    /\ rsum' = BuildSummary(collector, rsum.TotalRequests, rsum.SuccessfulRequests,
                            rsum.FailedRequests, collector.totalBytes)
    /\ muReaders' = muReaders - 1
    /\ rpc' = "display"
    /\ UNCHANGED <<config, conv, loaderVars, clientVars, exit, clock, pace, validator, ctxErr, runPc, launched, wpc, requests,
                   resp, vres, collector, closed, summary>>

\* updateDisplay prints the summary and drops it
ReporterDisplay ==
    /\ rpc = "display"
    /\ rsum' = NoSummary
    /\ rpc' = "idle"
    /\ UNCHANGED <<config, conv, loaderVars, clientVars, exit, clock, pace, validator, ctxErr, runPc, launched, wpc, requests,
                   resp, vres, collector, muReaders, closed, summary>>

\* the steps of the live reporter
ReporterStep ==
    \/ GetSummaryLoadTotal
    \/ GetSummaryLoadSuccessful
    \/ GetSummaryLoadFailed
    \/ GetSummaryReturn
    \/ ReporterDisplay

\* a run with --live, of one request per worker
InitLive == EngineCreated([config |-> ShortRun(1), conv |-> "saturate"])

NextLive ==
    \/ Next
    \/ ReporterStep

SpecLive == InitLive /\ [][NextLive]_vars

(***************************************************************************)
(* Scheduling: the Go scheduler runs every runnable goroutine, and a timer *)
(* that is set fires.                                                      *)
(***************************************************************************)
Fairness ==
    /\ WF_vars(DeadlineFire)
    /\ WF_vars(RunStep)
    /\ \A w \in Workers : WF_vars(WorkerStep(w))

SpecFair == Init /\ [][Next]_vars /\ Fairness

(***************************************************************************)
(* The Collector fed by one goroutine: a sequence of RecordResponse calls, *)
(* each run to its end before the next (as a test of the Collector does).  *)
(***************************************************************************)
\* latencies fed to the Collector range over 0..MaxLatency
MaxLatency == 5
\* at most MaxSamples responses are fed
MaxSamples == 5

\* the effect of one whole call of Collector.RecordResponse
RecordResponse(c, r) ==
    LET c1 == [c EXCEPT !.totalRequests = @ + 1,
                        !.totalBytes = @ + r.ContentLength]
        c2 == updateStatusCode(updateLatency(c1, r.ResponseTime), r.StatusCode)
    IN  IF IsFailure(r)
        THEN recordError([c2 EXCEPT !.failedRequests = @ + 1], r.Error)
        ELSE [c2 EXCEPT !.successfulRequests = @ + 1]

\* a call of RecordResponse with a response of any latency
FeedResponse ==
    /\ Len(collector.latencies) < MaxSamples
    /\ \E t \in 0..MaxLatency :
          collector' = RecordResponse(collector, Response(200, NoHeaders, << >>, t, Nil))
    /\ UNCHANGED <<config, conv, loaderVars, clientVars, exit, clock, pace, validator, ctxErr, runPc, launched, wpc, requests,
                   resp, vres, muReaders, closed, summary, rpc, rsum>>

InitLatency == EngineCreated([config |-> LongRun(0), conv |-> "indefinite"])

NextLatency == FeedResponse

SpecLatency == InitLatency /\ [][NextLatency]_vars

(***************************************************************************)
(* The ResponseValidator called on its own: a caller validates responses   *)
(* against a rule set, with and without the overrides of the run           *)
(* configuration.  The caller is one worker's place: resp and vres hold    *)
(* the response it validated last and the result it got.                   *)
(***************************************************************************)
\* the worker whose place the caller takes
Caller == CHOOSE w \in Workers : \A v \in Workers : w <= v

\* the header rules and the header maps of the model
HeadersAB(a, b) == [h \in {"a", "b"} |-> IF h = "a" THEN a ELSE b]
HeadersB(b) == [h \in {"b"} |-> b]

\* the rule sets: every field absent or present; the regex rules are a
\* pattern that compiles and one that does not
RuleSets ==
    { ValidationConfig(sc, rt, bc, bn, rx, jp, hd, sz[1], sz[2]) :
        sc \in {<< >>, <<200>>},
        rt \in {"", "2ms"},
        bc \in {<< >>, << <<"o">> >>},
        bn \in {<< >>, << <<"k">> >>},
        rx \in {<< >>, <<"^", "{">>, <<"(">>},
        jp \in {<< >>, <<"k">>},
        hd \in {NoHeaders, HeadersAB("1", "2")},
        sz \in {<<0, 0>>, <<1, 2>>} }

\* the rule set with every field absent
EmptyRules == ValidationConfig(<< >>, "", << >>, << >>, << >>, << >>, NoHeaders, 0, 0)

\* the responses a caller validates: HTTP responses, and a transport failure
ValidatedResponses ==
    { Response(st, hd, bd, t, Nil) :
        st \in {200, 500},
        hd \in {NoHeaders, HeadersAB("1", "2"), HeadersB("9")},
        bd \in {<< >>, <<"o", "k">>, <<"{", "k", "}">>},
        t  \in {1, 3} }
    \cup {createErrorResponse("connection refused", 0)}

\* the overrides a run configuration has: none, or one that is present
OverrideSets ==
    { ValidationOverrides(<< >>, 0, << >>, << >>),
      ValidationOverrides(<<500>>, 0, << >>, << >>),
      ValidationOverrides(<< >>, 1, << >>, << >>),
      ValidationOverrides(<< >>, 0, <<"k">>, << >>),
      ValidationOverrides(<< >>, 0, << >>, <<"o">>) }

\* the positions of the caller: it holds a result of Validate, or of
\* ValidateWithOverrides
AfterValidate == {"validated", "validated with overrides"}

\* v.Validate(resp) on a response
ValidateCall ==
    /\ wpc[Caller] = "idle"
    /\ \E r \in ValidatedResponses :
          /\ resp' = [resp EXCEPT ![Caller] = r]
          /\ \E v \in Validate(validator, r) : vres' = [vres EXCEPT ![Caller] = v]
    /\ wpc' = [wpc EXCEPT ![Caller] = "validated"]
    /\ UNCHANGED <<config, conv, loaderVars, clientVars, exit, clock, pace, validator, ctxErr, runPc, launched, requests,
                   collector, muReaders, closed, summary, rpc, rsum>>

\* v.Validate(resp) once more on the response validated last
ValidateAgain ==
    /\ wpc[Caller] \in AfterValidate
    /\ \E v \in Validate(validator, resp[Caller]) : vres' = [vres EXCEPT ![Caller] = v]
    /\ wpc' = [wpc EXCEPT ![Caller] = "validated"]
    /\ UNCHANGED <<config, conv, loaderVars, clientVars, exit, clock, pace, validator, ctxErr, runPc, launched, requests, resp,
                   collector, muReaders, closed, summary, rpc, rsum>>

\* v.ValidateWithOverrides(resp, overrides) with the overrides of the run
\* configuration; v.config is read (copied), never assigned
ValidateWithOverridesCall ==
    /\ wpc[Caller] = "idle"
    /\ \E r \in ValidatedResponses :
          /\ resp' = [resp EXCEPT ![Caller] = r]
          /\ \E v \in ValidateWithOverrides(validator, r, OverridesOf(config)) :
                vres' = [vres EXCEPT ![Caller] = v]
    /\ wpc' = [wpc EXCEPT ![Caller] = "validated with overrides"]
    /\ UNCHANGED <<config, conv, loaderVars, clientVars, exit, clock, pace, validator, ctxErr, runPc, launched, requests,
                   collector, muReaders, closed, summary, rpc, rsum>>

\* the caller drops the response and its result
CallerReturn ==
    /\ wpc[Caller] \in AfterValidate
    /\ wpc' = [wpc EXCEPT ![Caller] = "idle"]
    /\ resp' = [resp EXCEPT ![Caller] = NoResponse]
    /\ vres' = [vres EXCEPT ![Caller] = NoResult]
    /\ UNCHANGED <<config, conv, loaderVars, clientVars, exit, clock, pace, validator, ctxErr, runPc, launched, requests,
                   collector, muReaders, closed, summary, rpc, rsum>>

\* a validator on a rule set, and a run configuration with overrides
InitValidate ==
    \E rules \in RuleSets, o \in OverrideSets :
        /\ config = [LongRun(0) EXCEPT !.ExpectStatus = o.ExpectStatus,
                                       !.ExpectResponseTime = o.ExpectResponseTime,
                                       !.ExpectBody = o.ExpectBody,
                                       !.ExpectBodyNot = o.ExpectBodyNot]
        /\ conv = "indefinite"
        /\ validator = rules
        /\ ctxErr = ""
        /\ runPc = "created"
        /\ launched = 0
        /\ wpc = [w \in Workers |-> "idle"]
        /\ requests = [w \in Workers |-> 0]
        /\ resp = [w \in Workers |-> NoResponse]
        /\ vres = [w \in Workers |-> NoResult]
        /\ collector = NewCollector
        /\ muReaders = 0
        /\ closed = FALSE
        /\ summary = NoSummary
        /\ rpc = "idle"
        /\ rsum = NoSummary
        /\ clock = 0
        /\ pace = [w \in Workers |-> NoPacing]
        /\ scenario = PlainScenario
        /\ loadErr = Nil
        /\ ClientCreated
        /\ exit = NotExited

NextValidate ==
    ValidateCall \/ ValidateAgain \/ ValidateWithOverridesCall \/ CallerReturn

SpecValidate == InitValidate /\ [][NextValidate]_vars

(***************************************************************************)
(* Collector.RecordValidation called on its own: concurrent callers, each  *)
(* in a worker's place, record outcomes of any kind.  requests counts the  *)
(* calls a caller has made, vres holds the arguments of its call.          *)
(***************************************************************************)
\* largest number of RecordValidation calls made
MaxValidationCalls == 3

\* the error kinds the callers pass: none, and two kinds
ErrorKinds == {"", "status_code", "body_content"}

\* a caller calls c.RecordValidation(passed, errorType)
RecordValidationCall(w) ==
    /\ wpc[w] = "idle"
    /\ SumOver(requests, Workers) < MaxValidationCalls
    /\ \E passed \in BOOLEAN, errorType \in ErrorKinds :
          vres' = [vres EXCEPT ![w] = ValidationResult(passed, errorType, << >>)]
    /\ requests' = [requests EXCEPT ![w] = @ + 1]
    /\ wpc' = [wpc EXCEPT ![w] = "rv total"]
    /\ UNCHANGED <<config, conv, loaderVars, clientVars, exit, clock, pace, validator, ctxErr, runPc, launched, resp,
                   collector, muReaders, closed, summary, rpc, rsum>>

\* RecordValidation returns to the caller
RecordValidationReturn(w) ==
    /\ wpc[w] = "rr total"
    /\ wpc' = [wpc EXCEPT ![w] = "idle"]
    /\ vres' = [vres EXCEPT ![w] = NoResult]
    /\ UNCHANGED <<config, conv, loaderVars, clientVars, exit, clock, pace, validator, ctxErr, runPc, launched, requests, resp,
                   collector, muReaders, closed, summary, rpc, rsum>>

InitRecordValidation == EngineCreated([config |-> LongRun(0), conv |-> "indefinite"])

NextRecordValidation ==
    \E w \in Workers :
        \/ RecordValidationCall(w)
        \/ RecordValidationTotal(w)
        \/ RecordValidationOutcome(w)
        \/ RecordValidationBucket(w)
        \/ RecordValidationReturn(w)

SpecRecordValidation == InitRecordValidation /\ [][NextRecordValidation]_vars

(***************************************************************************)
(* The intensity of a load pattern alone: the phase lookup of               *)
(* calculateDelay and calculateIntensity applied to every elapsed value of  *)
(* a run.  One tick of a duration is 2.5 s here, so that 10 s, 5 s, 27.5 s   *)
(* and 30 s are 4, 2, 11 and 12 ticks.                                       *)
(***************************************************************************)
\* the pattern names drawn: the four of the catalog and one that is not in it
PatternNames == {"steady", "spike", "ramp-up", "stress", "wave"}

\* the (duration, ramp-up, ramp-down) drawn: 30 s / 10 s / 5 s, a run longer
\* than its ramps, a run shorter than its ramp-up, a run without ramps
RunShapes == { <<12, 4, 2>>, <<4, 1, 1>>, <<1, 2, 0>>, <<6, 0, 0>> }

PacingConfigs ==
    { LoadTestConfig(p, sh[1], sh[2], sh[3], 0, 0) : p \in PatternNames, sh \in RunShapes }

\* calculateDelay's lookup and calculateIntensity, for an elapsed value from 0
\* to one tick past the duration
IntensityCall ==
    \E t \in 0..(config.Duration + 1) :
        pace' = [pace EXCEPT ![Caller] =
                    [isNil |-> FALSE, elapsed |-> t,
                     cur |-> currentPhase(config, calculateLoadPattern(config), t)]]
    /\ UNCHANGED <<config, conv, loaderVars, clientVars, exit, clock, validator, ctxErr, runPc, launched, wpc,
                   requests, resp, vres, collector, muReaders, closed, summary,
                   rpc, rsum>>

InitIntensity ==
    \E cfg \in PacingConfigs : EngineCreated([config |-> cfg, conv |-> "indefinite"])

NextIntensity == IntensityCall

SpecIntensity == InitIntensity /\ [][NextIntensity]_vars

(***************************************************************************)
(* The head of Worker.Run's loop alone, with the clock of the run explicit: *)
(* each worker computes its delay at some offset from the run's start,      *)
(* sleeps it if positive, and goes on to its request.                       *)
(***************************************************************************)
\* longest run whose workers are paced
MaxPacedDuration == 6

\* time passes, up to the deadline of the run's context
ClockTick ==
    /\ clock < config.Duration
    /\ clock' = clock + 1
    /\ UNCHANGED <<config, conv, loaderVars, clientVars, exit, pace, validator, ctxErr, runPc, launched, wpc,
                   requests, resp, vres, collector, muReaders, closed, summary,
                   rpc, rsum>>

\* "go worker.Run": the worker reaches the head of its loop
PacingStart(w) ==
    /\ wpc[w] = "idle"
    /\ wpc' = [wpc EXCEPT ![w] = "poll"]
    /\ UNCHANGED <<config, conv, loaderVars, clientVars, exit, clock, pace, validator, ctxErr, runPc, launched,
                   requests, resp, vres, collector, muReaders, closed, summary,
                   rpc, rsum>>

\* delay := w.calculateDelay(pattern); if delay > 0 { time.Sleep(delay) }:
\* what the worker computed, and the offset at which it did
PacingPoll(w) ==
    /\ wpc[w] = "poll"
    /\ \E jitter \in 0..MaxJitter :
          LET pattern == calculateLoadPattern(config)
              elapsed == Elapsed(config, jitter)
              cur     == currentPhase(config, pattern, elapsed)
              delay   == calculateDelay(config, pattern, jitter, conv)
          IN  /\ pace' = [pace EXCEPT ![w] =
                             [isNil |-> FALSE, offset |-> clock, elapsed |-> elapsed,
                              cur |-> cur, delay |-> delay]]
              /\ wpc' = [wpc EXCEPT ![w] = IF DelayPositive(delay)
                                            THEN "sleep" ELSE "request"]
    /\ UNCHANGED <<config, conv, loaderVars, clientVars, exit, clock, validator, ctxErr, runPc, launched,
                   requests, resp, vres, collector, muReaders, closed, summary,
                   rpc, rsum>>

\* time.Sleep(delay) returns
PacingWake(w) ==
    /\ wpc[w] = "sleep"
    /\ wpc' = [wpc EXCEPT ![w] = "request"]
    /\ UNCHANGED <<config, conv, loaderVars, clientVars, exit, clock, pace, validator, ctxErr, runPc, launched,
                   requests, resp, vres, collector, muReaders, closed, summary,
                   rpc, rsum>>

\* w.executeRequest() and the static delay; the loop starts over
PacingRequest(w) ==
    /\ wpc[w] = "request"
    /\ wpc' = [wpc EXCEPT ![w] = "poll"]
    /\ pace' = [pace EXCEPT ![w] = NoPacing]
    /\ UNCHANGED <<config, conv, loaderVars, clientVars, exit, clock, validator, ctxErr, runPc, launched,
                   requests, resp, vres, collector, muReaders, closed, summary,
                   rpc, rsum>>

InitPacing ==
    \E cfg \in {c \in PacingConfigs : c.Duration <= MaxPacedDuration},
       cv \in {"saturate", "indefinite"} :
        EngineCreated([config |-> cfg, conv |-> cv])

NextPacing ==
    \/ ClockTick
    \/ \E w \in Workers :
        \/ PacingStart(w)
        \/ PacingPoll(w)
        \/ PacingWake(w)
        \/ PacingRequest(w)

SpecPacing == InitPacing /\ [][NextPacing]_vars

(***************************************************************************)
(* The loading of the scenario alone (runLoadTest up to NewLoadEngine, and *)
(* the engine's validation of responses with the rule set it got).         *)
(***************************************************************************)
\* the validation blocks of the scenario files: status codes in and out of
\* range, a response_time_max that parses or not, a regex that compiles or
\* not, and sizes in order, negative and out of order
ValidationBlocks ==
    { ValidationConfig(sc, rt, << >>, << >>, rx, << >>, NoHeaders, sz[1], sz[2]) :
        sc \in {<< >>, <<200>>, <<99>>, <<200, 600>>},
        rt \in {"", "2ms", "slow"},
        rx \in {<< >>, <<"o">>, <<"(">>},
        sz \in {<<0, 0>>, <<0 - 1, 0>>, <<2, 1>>, <<1, 2>>, <<2, 0>>} }

\* the retry blocks of the scenario files
RetryBlocks ==
    { RetryConfig(a, b, d) :
        a \in {0 - 1, 0, 10, 11}, b \in {"", "fixed", "random"}, d \in {"", "2ms", "soon"} }

\* the scenarios of the files: the top-level fields present, absent and
\* invalid; a retry block; a validation block; a block of each kind
Scenarios ==
    { Scenario(n, m, u, b, t, NoRetry, NoValidation) :
        n \in {"", "get"}, m \in {"", "GET", "HEAD", "FETCH", "get"},
        u \in {"", "/x"}, b \in {"", "http://h"}, t \in {"", "1ms", "fast"} }
    \cup { [PlainScenario EXCEPT !.Retry = r] : r \in RetryBlocks }
    \cup { [PlainScenario EXCEPT !.Validation = ValidationBlock(v)] : v \in ValidationBlocks }
    \cup { [PlainScenario EXCEPT !.Retry = r, !.Validation = ValidationBlock(v)] :
             r \in {RetryConfig(3, "linear", "1ms"), RetryConfig(11, "", "")},
             v \in {EmptyRules, [EmptyRules EXCEPT !.StatusCodes = <<600>>]} }

\* scenario, err := config.LoadScenarioFromFile(scenarioFile)
LoadScenario ==
    /\ runPc = "load"
    /\ loadErr' = LoadScenarioFromFile(scenario)
    /\ runPc' = IF LoadScenarioFromFile(scenario) # Nil THEN "failed" ELSE "loaded"
    /\ UNCHANGED <<config, conv, scenario, clientVars, exit, clock, pace, validator,
                   ctxErr, launched, wpc, requests, resp, vres, collector,
                   muReaders, closed, summary, rpc, rsum>>

\* engine.NewLoadEngine(loadConfig, scenario): the validator gets the rule set
\* of scenario.GetValidationConfig()
NewLoadEngine ==
    /\ runPc = "loaded"
    /\ validator' = GetValidationConfig(scenario)
    /\ runPc' = "created"
    /\ UNCHANGED <<config, conv, loaderVars, clientVars, exit, clock, pace,
                   ctxErr, launched, wpc, requests, resp, vres, collector,
                   muReaders, closed, summary, rpc, rsum>>

\* LoadEngine.RecordResponse: e.validator.Validate(resp) on a response of the run
EngineValidate ==
    /\ runPc = "created"
    /\ \E r \in ValidatedResponses :
          /\ resp' = [resp EXCEPT ![Caller] = r]
          /\ \E v \in Validate(validator, r) : vres' = [vres EXCEPT ![Caller] = v]
    /\ UNCHANGED <<config, conv, loaderVars, clientVars, exit, clock, pace, validator,
                   ctxErr, runPc, launched, wpc, requests, collector,
                   muReaders, closed, summary, rpc, rsum>>

InitScenario ==
    \E sc \in Scenarios :
        /\ config = LongRun(0)
        /\ conv = "indefinite"
        /\ validator = EmptyRules
        /\ ctxErr = ""
        /\ runPc = "load"
        /\ launched = 0
        /\ wpc = [w \in Workers |-> "idle"]
        /\ requests = [w \in Workers |-> 0]
        /\ resp = [w \in Workers |-> NoResponse]
        /\ vres = [w \in Workers |-> NoResult]
        /\ collector = NewCollector
        /\ muReaders = 0
        /\ closed = FALSE
        /\ summary = NoSummary
        /\ rpc = "idle"
        /\ rsum = NoSummary
        /\ clock = 0
        /\ pace = [w \in Workers |-> NoPacing]
        /\ scenario = sc
        /\ loadErr = Nil
        /\ ClientCreated
        /\ exit = NotExited

NextScenario == LoadScenario \/ NewLoadEngine \/ EngineValidate

SpecScenario == InitScenario /\ [][NextScenario]_vars

(***************************************************************************)
(* HTTPClient.Execute alone, called by the workers at once.  The client's   *)
(* Metrics have no lock and no atomic operation: c.metrics.X++ is a read    *)
(* and a write, and another goroutine can run between the two.              *)
(***************************************************************************)
\* the most Execute calls of a run of the client
MaxClientCalls == 3

\* what a call meets: a request that cannot be built, a failure of
\* http.Client.Do, a failure of io.ReadAll, or a response that was read
ExecuteOutcomes == {"bad request", "do error", "read error", "response"}

\* the calls that have begun
CallsBegun == calls.returned + Cardinality({w \in Workers : wpc[w] # "idle"})

\* Execute up to its first update of the metrics: createHTTPRequest,
\* c.client.Do and io.ReadAll
ExecuteBegin(w) ==
    /\ wpc[w] = "idle"
    /\ CallsBegun < MaxClientCalls
    /\ \E o \in ExecuteOutcomes :
          \/ /\ o = "bad request"
             /\ resp' = [resp EXCEPT ![w] = createErrorResponse("failed to create HTTP request", 0)]
             /\ wpc' = [wpc EXCEPT ![w] = "return"]
             /\ calls' = calls
          \/ /\ o = "do error"
             /\ resp' = [resp EXCEPT ![w] = createErrorResponse("connection refused", 0)]
             /\ wpc' = [wpc EXCEPT ![w] = "failed read"]
             /\ calls' = calls
          \/ /\ o = "read error"
             /\ resp' = [resp EXCEPT ![w] = createErrorResponse("unexpected EOF", 1)]
             /\ wpc' = [wpc EXCEPT ![w] = "failed read"]
             /\ calls' = [calls EXCEPT !.responded = @ + 1]
          \/ /\ o = "response"
             /\ \E r \in HTTPResponses : resp' = [resp EXCEPT ![w] = r]
             /\ wpc' = [wpc EXCEPT ![w] = "total read"]
             /\ calls' = [calls EXCEPT !.responded = @ + 1]
    /\ UNCHANGED <<config, conv, loaderVars, metrics, reg, exit, clock, pace, validator,
                   ctxErr, runPc, launched, requests, vres, collector,
                   muReaders, closed, summary, rpc, rsum>>

\* the read of c.metrics.X++, for the counter X of the worker's position
MetricsRead(w) ==
    /\ wpc[w] \in {"total read", "successful read", "failed read"}
    /\ reg' = [reg EXCEPT ![w] =
                  CASE wpc[w] = "total read"      -> metrics.TotalRequests
                    [] wpc[w] = "successful read" -> metrics.SuccessfulRequests
                    [] wpc[w] = "failed read"     -> metrics.FailedRequests]
    /\ wpc' = [wpc EXCEPT ![w] =
                  CASE wpc[w] = "total read"      -> "total write"
                    [] wpc[w] = "successful read" -> "successful write"
                    [] wpc[w] = "failed read"     -> "failed write"]
    /\ UNCHANGED <<config, conv, loaderVars, metrics, calls, exit, clock, pace, validator,
                   ctxErr, runPc, launched, requests, resp, vres, collector,
                   muReaders, closed, summary, rpc, rsum>>

\* updateMetrics: the write of c.metrics.TotalRequests++, then the branch on
\* the status code
MetricsWriteTotal(w) ==
    /\ wpc[w] = "total write"
    /\ metrics' = [metrics EXCEPT !.TotalRequests = reg[w] + 1]
    /\ wpc' = [wpc EXCEPT ![w] =
                  IF resp[w].StatusCode >= 200 /\ resp[w].StatusCode < 400
                  THEN "successful read" ELSE "failed read"]
    /\ UNCHANGED <<config, conv, loaderVars, reg, calls, exit, clock, pace, validator,
                   ctxErr, runPc, launched, requests, resp, vres, collector,
                   muReaders, closed, summary, rpc, rsum>>

\* the write of c.metrics.SuccessfulRequests++ or c.metrics.FailedRequests++
MetricsWriteOutcome(w) ==
    /\ wpc[w] \in {"successful write", "failed write"}
    /\ metrics' = IF wpc[w] = "successful write"
                  THEN [metrics EXCEPT !.SuccessfulRequests = reg[w] + 1]
                  ELSE [metrics EXCEPT !.FailedRequests = reg[w] + 1]
    /\ wpc' = [wpc EXCEPT ![w] = "return"]
    /\ UNCHANGED <<config, conv, loaderVars, reg, calls, exit, clock, pace, validator,
                   ctxErr, runPc, launched, requests, resp, vres, collector,
                   muReaders, closed, summary, rpc, rsum>>

\* Execute returns its response
ExecuteReturn(w) ==
    /\ wpc[w] = "return"
    /\ calls' = [calls EXCEPT !.returned = @ + 1]
    /\ resp' = [resp EXCEPT ![w] = NoResponse]
    /\ reg' = [reg EXCEPT ![w] = 0]
    /\ wpc' = [wpc EXCEPT ![w] = "idle"]
    /\ UNCHANGED <<config, conv, loaderVars, metrics, exit, clock, pace, validator,
                   ctxErr, runPc, launched, requests, vres, collector,
                   muReaders, closed, summary, rpc, rsum>>

InitClient == EngineCreated([config |-> LongRun(0), conv |-> "indefinite"])

NextClient ==
    \E w \in Workers :
        \/ ExecuteBegin(w)
        \/ MetricsRead(w)
        \/ MetricsWriteTotal(w)
        \/ MetricsWriteOutcome(w)
        \/ ExecuteReturn(w)

SpecClient == InitClient /\ [][NextClient]_vars

(***************************************************************************)
(* The end of runLoadTest alone: from the Summary that engine.Run returned  *)
(* to the exit of the command.                                              *)
(***************************************************************************)
\* the most requests of a finished run
MaxFinalRequests == 20

\* summary.SuccessRate <= 95.0 in place of summary.SuccessRate < 95.0
ExitCodeAtThreshold(s, reported) ==
    IF ~reported THEN 1
    ELSE IF s.SuccessRate.n <= 95 * s.SuccessRate.d THEN 2
    ELSE 0

\* the exit code of the command once engine.Run has returned the Summary s
\* (Run's error is always nil): an error of GenerateReport or WriteReport is
\* returned to main, which exits with 1; else os.Exit(2) below the threshold,
\* else the command returns nil
ExitCode(s, reported) ==
    IF ~reported THEN 1
    ELSE IF s.SuccessRate.n < 95 * s.SuccessRate.d THEN 2
    ELSE 0

\* the Collector of a finished run of `total` requests, `successful` of them
\* successes, that took one second
FinishedCollector(total, successful) ==
    [NewCollector EXCEPT !.totalRequests = total,
                         !.successfulRequests = successful,
                         !.failedRequests = total - successful,
                         !.startTime = 1, !.endTime = 2]

\* runLoadTest after engine.Run: the report is generated and written, or not,
\* and the command exits
RunLoadTestExit ==
    /\ runPc = "returned"
    /\ ~exit.exited
    /\ \E reported \in BOOLEAN :
          exit' = [exited |-> TRUE, code |-> ExitCode(summary, reported),
                   reported |-> reported]
    /\ UNCHANGED <<config, conv, loaderVars, clientVars, clock, pace, validator,
                   ctxErr, runPc, launched, wpc, requests, resp, vres, collector,
                   muReaders, closed, summary, rpc, rsum>>

\* engine.Run has returned the Summary of a finished run
InitExit ==
    \E total \in 0..MaxFinalRequests :
        \E successful \in 0..total :
            /\ config = LongRun(0)
            /\ conv = "indefinite"
            /\ validator = DefaultValidationConfig
            /\ ctxErr = "deadline exceeded"
            /\ runPc = "returned"
            /\ launched = NumWorkers
            /\ wpc = [w \in Workers |-> "done"]
            /\ requests = [w \in Workers |-> 0]
            /\ resp = [w \in Workers |-> NoResponse]
            /\ vres = [w \in Workers |-> NoResult]
            /\ collector = FinishedCollector(total, successful)
            /\ muReaders = 0
            /\ closed = TRUE
            /\ summary = BuildSummary(FinishedCollector(total, successful), total,
                                      successful, total - successful, 0)
            /\ rpc = "idle"
            /\ rsum = NoSummary
            /\ clock = 0
            /\ pace = [w \in Workers |-> NoPacing]
            /\ scenario = PlainScenario
            /\ loadErr = Nil
            /\ ClientCreated
            /\ exit = NotExited

NextExit == RunLoadTestExit

SpecExit == InitExit /\ [][NextExit]_vars

(***************************************************************************)
(* Properties.                                                             *)
(***************************************************************************)
\* the positions of a worker inside Collector.RecordValidation
InRecordValidation == {"rv total", "rv outcome", "rv bucket"}

\* the positions of a worker inside Collector.RecordResponse
InRecordResponse ==
    {"rr total", "rr bytes", "rr latency", "rr status", "rr outcome", "rr error"}

\* the positions of a worker inside Execute
InExecute == {"exec", "exec on done context"}

\* worker w holds the response of the request it is recording
Holding(w) == wpc[w] \in InRecordValidation \cup InRecordResponse

\* no call of RecordResponse is in flight
NoRecordResponseInFlight == \A w \in Workers : wpc[w] \notin InRecordResponse

\* the number of calls of RecordResponse that have returned: a worker has made
\* one per request it began, but for the request it has not yet recorded
CompletedRecordResponse ==
    SumOver(requests, Workers)
        - Cardinality({w \in Workers :
              wpc[w] \in InExecute \cup InRecordValidation \cup InRecordResponse})

\* C1: once K RecordResponse calls have completed and none is in flight, the
\* Collector holds totalRequests = K and successfulRequests + failedRequests
\* = K, whatever the interleaving of the workers' calls.
C1_NoObservationLost ==
    NoRecordResponseInFlight =>
        /\ collector.totalRequests = CompletedRecordResponse
        /\ collector.successfulRequests + collector.failedRequests
              = CompletedRecordResponse

\* two workers have each completed a call, one counted as a failure, and no
\* call is in flight
C1_Witness ==
    /\ NoRecordResponseInFlight
    /\ \A w \in Workers : requests[w] >= 1 /\ wpc[w] \notin InExecute \cup InRecordValidation
    /\ collector.failedRequests >= 1
    /\ collector.successfulRequests >= 1

\* C2 (as claimed): every Summary that GetSummary returns, also one the live
\* reporter takes during the run, has TotalRequests = SuccessfulRequests +
\* FailedRequests.
C2_SummaryConsistent ==
    /\ rpc = "display" =>
          rsum.TotalRequests = rsum.SuccessfulRequests + rsum.FailedRequests
    /\ runPc = "returned" =>
          summary.TotalRequests = summary.SuccessfulRequests + summary.FailedRequests

\* C3 (as claimed): Collector.Stop comes after every worker has terminated, so
\* the metrics state never changes once Stop has set the end of the window.
C3_FrozenAfterStop ==
    [][collector.endTime # 0 => collector' = collector]_vars

\* C4 (as claimed): with MaxRequests = 1 the final Summary counts exactly one
\* request per worker.
C4_ExactlyOnePerWorker ==
    (runPc = "returned" /\ config.MaxRequests = 1) =>
        summary.TotalRequests = NumWorkers

\* C4 (amended): with MaxRequests = 1 the final Summary counts one request for
\* each worker that began a request, no worker begins a second one, and so the
\* total is at most the number of workers.
C4_OnePerWorkerThatBegan ==
    (runPc = "returned" /\ config.MaxRequests = 1) =>
        /\ \A w \in Workers : requests[w] <= 1
        /\ summary.TotalRequests = Cardinality({w \in Workers : requests[w] = 1})
        /\ summary.TotalRequests <= NumWorkers

\* a run with MaxRequests = 1 has returned a Summary of one request per worker
C4_Witness ==
    /\ runPc = "returned"
    /\ config.MaxRequests = 1
    /\ summary.TotalRequests = NumWorkers

\* C5: with MaxRequests > 0 a worker's counter never exceeds MaxRequests, a
\* worker whose counter has reached it is never on its way to another request,
\* and the Collector's total never exceeds workers x MaxRequests.
C5_RequestCap ==
    config.MaxRequests > 0 =>
        /\ \A w \in Workers :
              /\ requests[w] <= config.MaxRequests
              /\ requests[w] >= config.MaxRequests =>
                    wpc[w] \notin {"sleep", "request"}
        /\ collector.totalRequests <= NumWorkers * config.MaxRequests

\* a worker has terminated at its request cap while the context is live and
\* the other workers are still running
C5_Witness ==
    /\ config.MaxRequests > 0
    /\ ctxErr = ""
    /\ \E w \in Workers :
          /\ wpc[w] = "done"
          /\ requests[w] = config.MaxRequests
          /\ \E v \in Workers : wpc[v] \in InRecordResponse

\* C6: the run always completes: every worker terminates and Run returns a
\* Summary, whatever the requests' outcomes.
C6_RunCompletes ==
    <>(/\ runPc = "returned"
       /\ ~summary.isNil
       /\ \A w \in Workers : wpc[w] = "done")

\* a run in which every request failed has returned its Summary
C6_Witness ==
    /\ runPc = "returned"
    /\ summary.TotalRequests = MaxTotalRequests
    /\ summary.SuccessfulRequests = 0
    /\ summary.SuccessRate = Rat(0, summary.TotalRequests)

\* the latency table of the Summary that GetSummary gives now
LatencyNow ==
    BuildSummary(collector, collector.totalRequests, collector.successfulRequests,
                 collector.failedRequests, collector.totalBytes).Latency

\* C7 (as claimed): for every non-empty sequence of recorded latencies the
\* Summary has Min <= Median <= P90 <= P95 <= P99 <= P99_9 <= Max.
C7_PercentilesOrdered ==
    Len(collector.latencies) > 0 =>
        /\ LatencyNow.Min <= LatencyNow.Median
        /\ LatencyNow.Median <= LatencyNow.P90
        /\ LatencyNow.P90 <= LatencyNow.P95
        /\ LatencyNow.P95 <= LatencyNow.P99
        /\ LatencyNow.P99 <= LatencyNow.P99_9
        /\ LatencyNow.P99_9 <= LatencyNow.Max

\* the percentiles the claims name, in tenths of a percent
Percentiles == {0, 500, 900, 950, 990, 999, 1000}

\* the number of elements of the sample below v, and not above v
CountBelow(sample, v) == Cardinality({i \in 1..Len(sample) : sample[i] < v})
CountUpTo(sample, v) == Cardinality({i \in 1..Len(sample) : sample[i] <= v})

\* the rank floor((n - 1) * p / 100), clamped to n - 1, stated by its bounds
Rank(n, permille) ==
    LET k == CHOOSE j \in 0..(n - 1) * permille :
                 j * 1000 <= (n - 1) * permille /\ (n - 1) * permille < (j + 1) * 1000
    IN  IF k > n - 1 THEN n - 1 ELSE k

\* v is the element of rank `rank` (0-based) of the sample in ascending order
IsOfRank(sample, rank, v) ==
    /\ \E i \in 1..Len(sample) : sample[i] = v
    /\ CountBelow(sample, v) <= rank
    /\ rank < CountUpTo(sample, v)

\* C8: a percentile of n latencies is the element of rank floor((n-1)*p/100)
\* of the ascending sample, clamped to the last, and 0 for no sample, by
\* Collector.calculatePercentile and by utils.CalculatePercentile alike; of
\* {100,...,500}ms P50 is 300ms, P90 is 400ms and P0 is 100ms.
C8_NearestRank ==
    LET sample == collector.latencies
    IN  \A p \in Percentiles :
           /\ Len(sample) = 0 =>
                 /\ CalculatePercentile(sample, p) = 0
                 /\ calculatePercentile(sample, p) = 0
           /\ Len(sample) > 0 =>
                 /\ IsOfRank(sample, Rank(Len(sample), p), CalculatePercentile(sample, p))
                 /\ IsOfRank(sample, Rank(Len(sample), p),
                             calculatePercentile(SortDurations(sample), p))
           /\ (Len(sample) = 5 /\ {sample[i] : i \in 1..Len(sample)} = 1..5) =>
                 /\ CalculatePercentile(sample, 500) = 3
                 /\ CalculatePercentile(sample, 900) = 4
                 /\ CalculatePercentile(sample, 0) = 1
                 /\ calculatePercentile(SortDurations(sample), 500) = 3
                 /\ calculatePercentile(SortDurations(sample), 900) = 4
                 /\ calculatePercentile(SortDurations(sample), 0) = 1

\* the latencies 100..500 ms (in units of 100 ms) have been recorded, in an
\* order that is not ascending
C8_Witness == collector.latencies = <<3, 5, 1, 4, 2>>

\* C9: a worker that holds a failure of the protocol client holds it as a
\* response of status 0 with the error, that failed validation; recording it
\* counts one validation, one failed validation, one request, one failed
\* request and one error of its text, and the worker then goes on with its
\* loop (it does not terminate on the failure).
C9_FailureRecorded ==
    /\ [](\A w \in Workers :
            (Holding(w) /\ resp[w].Error # Nil) =>
                resp[w].StatusCode = 0 /\ ~vres[w].Passed)
    /\ [][\A w \in Workers :
            (Holding(w) /\ resp[w].Error # Nil /\ wpc'[w] # wpc[w]) =>
               LET v  == collector.validationResults
                   v2 == collector'.validationResults
               IN  /\ wpc[w] = "rv total" =>
                        v2.TotalValidations = v.TotalValidations + 1
                   /\ wpc[w] = "rv outcome" =>
                        /\ v2.FailedValidations = v.FailedValidations + 1
                        /\ v2.PassedValidations = v.PassedValidations
                   /\ wpc[w] = "rr total" =>
                        collector'.totalRequests = collector.totalRequests + 1
                   /\ wpc[w] = "rr outcome" =>
                        /\ collector'.failedRequests = collector.failedRequests + 1
                        /\ collector'.successfulRequests = collector.successfulRequests
                        /\ wpc'[w] = "rr error"
                   /\ wpc[w] = "rr error" =>
                        /\ MapSum(collector'.errors) = MapSum(collector.errors) + 1
                        /\ resp[w].Error \in DOMAIN collector'.errors
                        /\ wpc'[w] \in {"poll", "delay"}
                   /\ wpc'[w] # "done"]_vars

\* a worker has recorded the failure of its first request and is back at the
\* head of its loop, the context live and the run going on
C9_Witness ==
    \E w \in Workers :
        /\ wpc[w] = "poll"
        /\ requests[w] = 1
        /\ \A v \in Workers \ {w} : requests[v] = 0
        /\ collector.failedRequests = 1
        /\ collector.totalRequests = 1
        /\ collector.validationResults.FailedValidations = 1
        /\ MapSum(collector.errors) = 1
        /\ ctxErr = ""
        /\ runPc = "wait"

\* C10 (as claimed): every failed response increments one error-signature
\* bucket, so once no call is in flight the buckets sum to the failure count.
C10_ErrorBucketsSum ==
    NoRecordResponseInFlight => MapSum(collector.errors) = collector.failedRequests

\* the rules of a rule set in the order of the specification, each with the
\* kinds its failure is reported as and whether the response fails it
RulesInOrder(rules, r) ==
    LET time == ParseDuration(rules.ResponseTimeMax)
    IN  << [kinds |-> {"request_error"}, fails |-> r.Error # Nil],
           [kinds |-> {"status_code"},
            fails |-> /\ Len(rules.StatusCodes) > 0
                      /\ \A i \in 1..Len(rules.StatusCodes) :
                            rules.StatusCodes[i] # r.StatusCode],
           [kinds |-> {"response_time"},
            fails |-> /\ rules.ResponseTimeMax # ""
                      /\ (time.err \/ r.ResponseTime > time.d)],
           [kinds |-> {"response_size"},
            fails |-> \/ rules.MinResponseSize > 0 /\ Len(r.Body) < rules.MinResponseSize
                      \/ rules.MaxResponseSize > 0 /\ Len(r.Body) > rules.MaxResponseSize],
           [kinds |-> {"body_content"},
            fails |-> \E i \in 1..Len(rules.BodyContains) :
                         ~Contains(r.Body, rules.BodyContains[i])],
           [kinds |-> {"body_content"},
            fails |-> \E i \in 1..Len(rules.BodyNotContains) :
                         Contains(r.Body, rules.BodyNotContains[i])],
           [kinds |-> {"body_regex"},
            fails |-> /\ rules.BodyRegex # << >>
                      /\ ~RegexMatchString(rules.BodyRegex, r.Body).matched],
           [kinds |-> {"body_json_path"},
            fails |-> /\ rules.BodyJSONPath # << >>
                      /\ ~validateJSONPath(r.Body, rules.BodyJSONPath)],
           [kinds |-> {"header_missing", "header_value"},
            fails |-> \E h \in DOMAIN rules.Headers :
                         h \notin DOMAIN r.Headers \/ r.Headers[h] # rules.Headers[h]] >>

\* the result v reports the first rule of the order that the response fails,
\* by one of that rule's kinds, or passes if the response fails none
ReportsFirstFailingRule(rules, r, v) ==
    LET order   == RulesInOrder(rules, r)
        failing == {i \in 1..Len(order) : order[i].fails}
    IN  IF failing = {} THEN v.Passed
        ELSE LET first == CHOOSE i \in failing : \A j \in failing : i <= j
             IN  ~v.Passed /\ v.ErrorType \in order[first].kinds

\* C11 (as claimed): Validate reports the first failing rule of the fixed order
\* request_error, status_code, response_time, response_size, body_content
\* (required), body_content (forbidden), body_regex, body_json_path,
\* header_missing/header_value, and only by that rule's kind.
C11_FirstFailingRuleWins ==
    wpc[Caller] = "validated" =>
        ReportsFirstFailingRule(validator, resp[Caller], vres[Caller])

\* C12 (as claimed): a repeated Validate of the same response under the same
\* rule set returns the same ValidationResult.
C12_ValidateDeterministic ==
    [][(/\ wpc[Caller] = "validated"
        /\ wpc'[Caller] = "validated"
        /\ resp'[Caller] = resp[Caller]
        /\ validator' = validator) => vres'[Caller] = vres[Caller]]_vars

\* the field of the rule set that gives a failure of the kind `kind` is present
RuleFieldPresent(rules, kind) ==
    CASE kind = "status_code"    -> Len(rules.StatusCodes) > 0
      [] kind = "response_time"  -> rules.ResponseTimeMax # ""
      [] kind = "response_size"  -> rules.MinResponseSize > 0 \/ rules.MaxResponseSize > 0
      [] kind = "body_content"   -> rules.BodyContains # << >> \/ rules.BodyNotContains # << >>
      [] kind = "body_regex"     -> rules.BodyRegex # << >>
      [] kind = "body_json_path" -> rules.BodyJSONPath # << >>
      [] kind \in {"header_missing", "header_value"} -> DOMAIN rules.Headers # {}
      [] kind = "config_error"   -> rules.ResponseTimeMax # "" \/ rules.BodyRegex # << >>
      [] OTHER -> FALSE

\* C13: an absent rule field is vacuously satisfied: Validate fails a response
\* without transport failure only by a rule whose field is present, and under
\* the empty rule set it passes every such response, whatever its status code,
\* time, size, body and headers.
C13_AbsentRulesPass ==
    (wpc[Caller] = "validated" /\ resp[Caller].Error = Nil) =>
        /\ ~vres[Caller].Passed => RuleFieldPresent(validator, vres[Caller].ErrorType)
        /\ validator = EmptyRules => vres[Caller] = PassedResult

\* the empty rule set has passed a response of status 500 with a body, headers
\* and a response time of 3 ms
C13_Witness ==
    /\ wpc[Caller] = "validated"
    /\ validator = EmptyRules
    /\ resp[Caller] = Response(500, HeadersB("9"), <<"o", "k">>, 3, Nil)
    /\ vres[Caller].Passed

\* the rule set with each rule that has a present override replaced by it
Overlay(rules, o) ==
    ValidationConfig(
        IF o.ExpectStatus # << >> THEN o.ExpectStatus ELSE rules.StatusCodes,
        IF o.ExpectResponseTime > 0 THEN DurationString(o.ExpectResponseTime)
                                    ELSE rules.ResponseTimeMax,
        IF o.ExpectBody # << >> THEN <<o.ExpectBody>> ELSE rules.BodyContains,
        IF o.ExpectBodyNot # << >> THEN <<o.ExpectBodyNot>> ELSE rules.BodyNotContains,
        rules.BodyRegex, rules.BodyJSONPath, rules.Headers,
        rules.MinResponseSize, rules.MaxResponseSize)

C15_OverridesRecorded ==
    \A w \in Workers :
        wpc[w] = "rv total" =>
            vres[w] \in ValidateWithOverrides(validator, resp[w], OverridesOf(config))

\* C17: the protocol client is closed once in a run, after every worker has
\* joined: once closed it stays closed, no worker moves (none calls Execute),
\* Close is the step of Run between the join and the Summary, and the Summary
\* is read after it.
C17_CloseAfterJoin ==
    /\ <>closed
    /\ [](closed => /\ \A w \in Workers : wpc[w] = "done"
                    /\ runPc \in {"summary", "returned"})
    /\ [](~summary.isNil => closed)
    /\ [][/\ closed => (closed' /\ wpc' = wpc)
          /\ closed' # closed => (runPc = "close" /\ runPc' = "summary")]_vars

\* the client is closed, after workers that made requests, and Run has
\* returned the Summary
C17_Witness ==
    /\ closed
    /\ runPc = "returned"
    /\ summary.TotalRequests = MaxTotalRequests
    /\ \A w \in Workers : requests[w] >= 1

\* C18: Stop can be called at any time; once the cancellation signal is set a
\* further Stop changes nothing, every worker that polls the signal terminates,
\* and Run returns the Summary.
C18_StopIdempotent ==
    /\ [](ENABLED Stop)
    /\ [][ctxErr # "" => ctxErr' = ctxErr]_vars
    /\ [][\A w \in Workers :
            (ctxErr # "" /\ wpc[w] = "poll" /\ wpc'[w] # "poll") => wpc'[w] = "done"]_vars
    /\ (ctxErr = "canceled") ~>
          (/\ runPc = "returned"
           /\ ~summary.isNil
           /\ \A w \in Workers : wpc[w] = "done")

\* Stop was called before any worker made a request, every worker terminated
\* at its first poll and Run has returned the Summary of no request
C18_Witness ==
    /\ ctxErr = "canceled"
    /\ runPc = "returned"
    /\ summary.TotalRequests = 0
    /\ \A w \in Workers : wpc[w] = "done" /\ requests[w] = 0

C20_OneWorkerPerVirtualUser ==
    /\ launched <= config.VirtualUsers
    /\ runPc \notin {"created", "launch"} => launched = config.VirtualUsers

\* the count of the bucket k of a Go map of counts
BucketCount(m, k) == IF k \in DOMAIN m THEN m[k] ELSE 0

\* the callers that have called RecordValidation and not yet returned
InValidationCall == {w \in Workers : wpc[w] \in InRecordValidation \cup {"rr total"}}

\* C16: once the RecordValidation calls made have completed, TotalValidations
\* = PassedValidations + FailedValidations = the number of calls; within a
\* call, the total is counted once, then the passed or the failed counter,
\* and then the bucket of the kind is counted once exactly if the call failed
\* with a non-empty kind; nothing else changes a counter or a bucket.
C16_ValidationCounters ==
    /\ [](LET v == collector.validationResults
          IN  /\ InValidationCall = {} =>
                    /\ v.TotalValidations = SumOver(requests, Workers)
                    /\ v.PassedValidations + v.FailedValidations = v.TotalValidations
              /\ MapSum(v.ValidationErrors) <= v.FailedValidations
              /\ "" \notin DOMAIN v.ValidationErrors)
    /\ [][LET v  == collector.validationResults
              v2 == collector'.validationResults
          IN  \A w \in Workers :
                wpc'[w] # wpc[w] =>
                   /\ wpc[w] = "rv total" =>
                        v2 = [v EXCEPT !.TotalValidations = @ + 1]
                   /\ (wpc[w] = "rv outcome" /\ vres[w].Passed) =>
                        /\ v2 = [v EXCEPT !.PassedValidations = @ + 1]
                        /\ wpc'[w] = "rr total"
                   /\ (wpc[w] = "rv outcome" /\ ~vres[w].Passed) =>
                        /\ v2 = [v EXCEPT !.FailedValidations = @ + 1]
                        /\ wpc'[w] = IF vres[w].ErrorType = "" THEN "rr total"
                                                              ELSE "rv bucket"
                   /\ wpc[w] = "rv bucket" =>
                        /\ \A k \in ErrorKinds :
                              BucketCount(v2.ValidationErrors, k)
                                 = BucketCount(v.ValidationErrors, k)
                                      + (IF k = vres[w].ErrorType THEN 1 ELSE 0)
                        /\ DOMAIN v2.ValidationErrors \subseteq ErrorKinds
                        /\ [v2 EXCEPT !.ValidationErrors = v.ValidationErrors] = v
                   /\ wpc[w] \notin InRecordValidation => v2 = v]_vars

\* three calls have completed: a passed one, a failed one of kind status_code
\* and a failed one of no kind; one bucket counts one call
C16_Witness ==
    /\ InValidationCall = {}
    /\ collector.validationResults.TotalValidations = 3
    /\ collector.validationResults.PassedValidations = 1
    /\ collector.validationResults.FailedValidations = 2
    /\ collector.validationResults.ValidationErrors = [k \in {"status_code"} |-> 1]

\* ---------------------------------------------------------------------------
\* The Summary a caller holds, as the caller reads it: GetSummary copied the
\* counters and the two distributions, but ValidationResults is the
\* Collector's pointer, so reading it yields the Collector's present record.
SummaryAsRead(s) ==
    IF s.isNil THEN s
    ELSE [s EXCEPT !.ValidationResults = collector.validationResults]

\* C21: a Summary returned by GetSummary is an immutable snapshot: no
\* RecordResponse or RecordValidation call that happens while the caller holds
\* it changes any of its fields, the validation counts and buckets included.
C21_SummaryImmutable ==
    [][(rpc = "display" /\ rpc' = "display")
          => SummaryAsRead(rsum)' = SummaryAsRead(rsum)]_vars

\* the float64 x equals the fraction n/d
RatIs(x, n, d) == x.n * d = n * x.d

\* the run of the example: 30 s with a ramp-up of 10 s and a ramp-down of 5 s
\* (12, 4 and 2 ticks), as steady or under a name that is not in the catalog
IsSteadyExample ==
    /\ config.Pattern \in {"steady", "wave"}
    /\ config.Duration = 12 /\ config.RampUp = 4 /\ config.RampDown = 2

\* C22: for steady (and any unrecognized name) with ramp-up 10 s, ramp-down
\* 5 s and duration 30 s the intensity computed for elapsed t is 0 at t = 0,
\* 1.0 at t = 10 s, 0.5 at t = 27.5 s and 0 at t = 30 s.
C22_SteadyRampsInterpolate ==
    (IsSteadyExample /\ ~pace[Caller].isNil) =>
        LET t   == pace[Caller].elapsed
            cur == pace[Caller].cur
        IN  /\ t = 0  => (cur.found /\ RatIs(cur.intensity, 0, 1))
            /\ t = 4  => (cur.found /\ RatIs(cur.intensity, 1, 1))
            /\ t = 11 => (cur.found /\ RatIs(cur.intensity, 1, 2))
            /\ t = 12 => (cur.found /\ RatIs(cur.intensity, 0, 1))

\* C23: whenever the intensity computed for the current instant is 0 the
\* worker issues no request on that iteration: it never goes on from that
\* computation to its request.
C23_ZeroIntensityIdles ==
    [][\A w \in Workers :
          (wpc[w] # "request" /\ wpc'[w] = "request")
             => ~(pace'[w].cur.found /\ pace'[w].cur.intensity.n = 0)]_vars

\* C24: the delay a worker applies is a function of the pattern, the config
\* and the time since the run started: the elapsed value of the phase lookup
\* is the worker's offset, the delay is that of the phase whose window holds
\* the offset, two workers at one offset get one delay, and the delay is zero
\* only at an offset past all the phase windows.
C24_DelayFollowsOffset ==
    \A w \in Workers :
        ~pace[w].isNil =>
            LET pattern == calculateLoadPattern(config)
                atOffset == currentPhase(config, pattern, pace[w].offset)
            IN  /\ pace[w].elapsed = pace[w].offset
                /\ pace[w].delay = phaseDelay(atOffset, conv)
                /\ \A v \in Workers :
                      (~pace[v].isNil /\ pace[v].offset = pace[w].offset)
                         => pace[v].delay = pace[w].delay
                /\ pace[w].delay = FiniteDelay(0) => ~atOffset.found

\* the rates of the Summary s are those of its counters and of the window of
\* the Collector c it was computed from
RatesOf(s, c) ==
    LET window == c.endTime - c.startTime
    IN  /\ s.TotalRequests = 0 => RatIs(s.SuccessRate, 0, 1)
        /\ s.TotalRequests > 0 =>
              RatIs(s.SuccessRate, s.SuccessfulRequests * 100, s.TotalRequests)
        /\ IF c.startTime = 0 \/ c.endTime = 0 \/ window = 0
           THEN /\ RatIs(s.RequestsPerSecond, 0, 1)
                /\ RatIs(s.BytesPerSecond, 0, 1)
           ELSE /\ RatIs(s.RequestsPerSecond, s.TotalRequests, window)
                /\ RatIs(s.BytesPerSecond, s.TotalBytes, window)

\* C25: a Summary reports SuccessRate = successes / total x 100 (0 without
\* requests) and both throughput rates as the totals over stop time - start
\* time, 0 when Start or Stop has not been called or the window is zero; so a
\* Summary read before Stop reports both rates as 0.
C25_SummaryRates ==
    [][/\ (rpc = "load rest" /\ rpc' = "display") =>
             /\ RatesOf(rsum', collector)
             /\ collector.endTime = 0 =>
                   /\ rsum'.RequestsPerSecond.n = 0
                   /\ rsum'.BytesPerSecond.n = 0
       /\ (runPc = "summary" /\ runPc' = "returned") =>
             RatesOf(summary', collector)]_vars

\* the live reporter holds a Summary of a request with bytes that it read
\* before Stop, and Run has returned a Summary with a throughput
C25_Witness ==
    /\ rpc = "display"
    /\ rsum.TotalRequests > 0
    /\ rsum.TotalBytes > 0
    /\ rsum.RequestsPerSecond.n = 0
    /\ ~summary.isNil
    /\ summary.RequestsPerSecond.n > 0
    /\ summary.BytesPerSecond.n > 0

\* the validation block v has a malformed rule
Malformed(v) ==
    \/ v.ResponseTimeMax # "" /\ ParseDuration(v.ResponseTimeMax).err
    \/ v.BodyRegex # << >> /\ RegexMatchString(v.BodyRegex, << >>).err
    \/ \E i \in 1..Len(v.StatusCodes) : v.StatusCodes[i] \notin 100..599
    \/ v.MinResponseSize < 0
    \/ v.MaxResponseSize > 0 /\ v.MinResponseSize > v.MaxResponseSize

\* C26: malformed validation rules (unparsable response_time_max, invalid body
\* regex, status code outside 100..599, negative min size, min size above a
\* positive max size) fail fast: the run never begins with such a rule, and
\* the validator never reports a configuration error for a response.
C26_MalformedRulesFailFast ==
    /\ (~scenario.Validation.isNil /\ Malformed(scenario.Validation.block))
          => runPc \in {"load", "failed"}
    /\ vres[Caller] # NoResult => vres[Caller].ErrorType # "config_error"

\* the scenario has a problem that Scenario.Validate is to report
ScenarioProblem(s) ==
    \/ s.Name = "" \/ s.Method = "" \/ s.URL = "" \/ s.BaseURL = ""
    \/ s.Method \notin {"GET", "POST", "PUT", "DELETE", "PATCH", "HEAD", "OPTIONS"}
    \/ s.Timeout # "" /\ ParseDuration(s.Timeout).err
    \/ /\ ~s.Retry.isNil
       /\ \/ s.Retry.Attempts \notin 0..10
          \/ s.Retry.Backoff \notin {"", "linear", "exponential", "fixed"}
          \/ s.Retry.MaxDelay # "" /\ ParseDuration(s.Retry.MaxDelay).err
    \/ /\ ~s.Validation.isNil
       /\ ValidationConfigValidate(s.Validation.block) # Nil

\* C29: a scenario without validation block is validated with the rule set
\* {status codes: [200]}, which passes exactly the responses without transport
\* failure and with status 200; a scenario with a validation block is
\* validated with that block unchanged.
C29_DefaultRuleSet ==
    runPc = "created" =>
        IF scenario.Validation.isNil
        THEN /\ validator = [EmptyRules EXCEPT !.StatusCodes = <<200>>]
             /\ vres[Caller] # NoResult =>
                   (vres[Caller].Passed <=>
                       (resp[Caller].Error = Nil /\ resp[Caller].StatusCode = 200))
        ELSE validator = scenario.Validation.block

\* the engine of a scenario without validation block has passed a response
\* of status 200 (other states of the run: one with a block, a failed one)
C29_Witness ==
    /\ runPc = "created"
    /\ scenario.Validation.isNil
    /\ vres[Caller] # NoResult
    /\ vres[Caller].Passed
    /\ resp[Caller].StatusCode = 200

\* C30: Scenario.Validate returns an error if and only if the name, method,
\* URL or base_url is empty, the method is not one of the seven, a non-empty
\* timeout does not parse, or a present retry or validation block fails its
\* own Validate (attempts outside 0..10, unknown non-empty backoff, unparsable
\* max_delay).
C30_ScenarioValidate ==
    runPc # "load" => (loadErr # Nil <=> ScenarioProblem(scenario))

\* a scenario with a retry block of ten attempts and no problem has loaded
C30_Witness ==
    /\ runPc = "loaded"
    /\ loadErr = Nil
    /\ ~scenario.Retry.isNil
    /\ scenario.Retry.Attempts = 10

\* C27: Execute is safe for concurrent calls: once N calls have returned and
\* none is in flight, no update of the client's metrics is lost: TotalRequests
\* is the number of calls that received an HTTP response, and
\* SuccessfulRequests + FailedRequests is N.
C27_ClientMetricsComplete ==
    (\A w \in Workers : wpc[w] = "idle") =>
        /\ metrics.TotalRequests = calls.responded
        /\ metrics.SuccessfulRequests + metrics.FailedRequests = calls.returned

\* the success rate of the final Summary is below 95%
Below95 ==
    \/ summary.TotalRequests = 0
    \/ summary.SuccessfulRequests * 100 < 95 * summary.TotalRequests

\* C28 (as stated): the run command exits with code 2 exactly when the final
\* success rate is below 95%, a run without requests included, and with code 0
\* when it is at least 95%.
C28_ExitCodeByRate ==
    exit.exited =>
        /\ exit.code = 2 <=> Below95
        /\ ~Below95 => exit.code = 0

\* C28 (amended): when the report has been generated and written the command
\* exits with code 2 exactly when the final success rate is below 95%, a run
\* without requests included, and with code 0 otherwise; it exits with code 1
\* only when the report could not be generated or written, whatever the rate
\* and the failures of the requests.
C28_ExitCodeOfReportedRun ==
    exit.exited =>
        /\ exit.reported => (exit.code = 2 <=> Below95)
        /\ exit.reported => (exit.code = 0 <=> ~Below95)
        /\ exit.code = 1 <=> ~exit.reported

\* a run of which exactly 95% of the requests succeeded has exited with 0
C28_Witness ==
    /\ exit.exited
    /\ exit.reported
    /\ exit.code = 0
    /\ summary.TotalRequests > 0
    /\ summary.FailedRequests > 0
    /\ summary.SuccessfulRequests * 100 = 95 * summary.TotalRequests

\* C31: when Run returns, Summary.TotalRequests is the sum of the workers'
\* request counters: every increment of a worker's counter is followed by one
\* RecordValidation and one RecordResponse for that request, whether it
\* succeeded, failed or was cancelled.
C31_TotalIsSumOfWorkerCounts ==
    /\ runPc = "returned" =>
          /\ summary.TotalRequests = SumOver(requests, Workers)
          /\ collector.validationResults.TotalValidations = SumOver(requests, Workers)
    /\ collector.validationResults.TotalValidations
          = SumOver(requests, Workers)
              - Cardinality({w \in Workers : wpc[w] \in InExecute \cup {"rv total"}})
    /\ collector.totalRequests
          = SumOver(requests, Workers)
              - Cardinality({w \in Workers :
                    wpc[w] \in InExecute \cup InRecordValidation \cup {"rr total"}})

\* Run has returned the Summary of a run of two requests, one of which ended
\* with the error of the context
C31_Witness ==
    /\ runPc = "returned"
    /\ summary.TotalRequests = MaxTotalRequests
    /\ SumOver(requests, Workers) = MaxTotalRequests
    /\ \E e \in {"context canceled", "context deadline exceeded"} :
          e \in DOMAIN summary.Errors

\* the number of calls of Collector.RecordResponse in flight
RecordResponseInFlight == Cardinality({w \in Workers : wpc[w] \in InRecordResponse})

\* C32: at every state of the Collector under concurrent writers,
\* successful + failed <= sum of the status-code buckets <= number of recorded
\* latencies <= totalRequests; totalRequests exceeds successful + failed by at
\* most the number of RecordResponse calls in flight, and the four are equal
\* when none is in flight.
C32_CounterChain ==
    LET outcomes == collector.successfulRequests + collector.failedRequests
        statuses == MapSum(collector.statusCodes)
        latencies == Len(collector.latencies)
    IN  /\ outcomes <= statuses
        /\ statuses <= latencies
        /\ latencies <= collector.totalRequests
        /\ collector.totalRequests - outcomes <= RecordResponseInFlight
        /\ RecordResponseInFlight = 0 =>
              /\ outcomes = statuses
              /\ statuses = latencies
              /\ latencies = collector.totalRequests

\* two calls are in flight, one past its status code and one before its
\* latency: the four numbers are 0, 1, 1 and 2
C32_Witness ==
    /\ collector.successfulRequests + collector.failedRequests = 0
    /\ MapSum(collector.statusCodes) = 1
    /\ Len(collector.latencies) = 1
    /\ collector.totalRequests = 2
    /\ RecordResponseInFlight = 2

\* C33: at every instant of a run TotalValidations >= totalRequests, since a
\* worker records the validation outcome of a response before its response
\* metrics; the difference is at most the number of workers, and the two are
\* equal once all workers have terminated.
C33_ValidationsLeadRequests ==
    LET validations == collector.validationResults.TotalValidations
    IN  /\ validations >= collector.totalRequests
        /\ validations - collector.totalRequests <= NumWorkers
        /\ (\A w \in Workers : wpc[w] = "done") =>
              validations = collector.totalRequests

\* every worker has counted the validation of its response and not yet the
\* response: the difference is the number of workers
C33_Witness ==
    /\ collector.validationResults.TotalValidations = NumWorkers
    /\ collector.totalRequests = 0
    /\ \A w \in Workers : wpc[w] \in InRecordValidation \cup {"rr total"}

\* the positions of a worker that has passed the poll of an iteration and has
\* not begun its request
PastThePoll == {"sleep", "request"}

\* C34: after the cancellation signal is set each worker begins at most one
\* further request.  The signal stays set; a request begins only from an
\* iteration that has passed the poll; once the signal is set no worker passes
\* the poll (it terminates there), while a worker that had passed it still
\* sleeps its delay, executes its request and records it.
C34_OneFurtherRequest ==
    [][/\ ctxErr # "" => ctxErr' = ctxErr
       /\ \A w \in Workers :
             /\ requests'[w] # requests[w] =>
                   /\ requests'[w] = requests[w] + 1
                   /\ wpc[w] = "request"
                   /\ wpc'[w] \in InExecute
             /\ (ctxErr # "" /\ wpc'[w] \in PastThePoll) => wpc[w] \in PastThePoll
             /\ (ctxErr # "" /\ wpc[w] = "poll" /\ wpc'[w] # "poll") => wpc'[w] = "done"
             /\ (wpc[w] = "sleep" /\ wpc'[w] # "sleep") => wpc'[w] = "request"
             /\ (wpc[w] = "request" /\ wpc'[w] # "request") => wpc'[w] \in InExecute
             /\ (wpc[w] \in InExecute /\ wpc'[w] # wpc[w]) => wpc'[w] = "rv total"
             /\ wpc[w] = "done" => wpc'[w] = "done"]_vars

\* a worker that passed the poll before the signal has begun its request
\* after it, while another worker has terminated at its poll, without a request
C34_Witness ==
    /\ ctxErr # ""
    /\ \E w \in Workers :
          /\ wpc[w] = "exec on done context"
          /\ \E v \in Workers : wpc[v] = "done" /\ requests[v] = 0

\* the texts of the errors of a context that is done
ContextErrors == {"context canceled", "context deadline exceeded"}

BeforeTheSelect == {"created", "launch", "wait"}

C37_LatencyExtremes ==
    LET sample == collector.latencies
        n      == Len(sample)
        total  == collector.totalLatency
    IN  n > 0 =>
            /\ \E i \in 1..n : sample[i] = LatencyNow.Min
            /\ \A i \in 1..n : LatencyNow.Min <= sample[i]
            /\ \E i \in 1..n : sample[i] = LatencyNow.Max
            /\ \A i \in 1..n : sample[i] <= LatencyNow.Max
            /\ LatencyNow.Mean * n <= total
            /\ total < (LatencyNow.Mean + 1) * n

(***************************************************************************)
(* The engine on the rule set of its scenario: NewLoadEngine takes the     *)
(* validator's rules from scenario.GetValidationConfig(), so a scenario    *)
(* with a validation block runs the pipeline on rules other than the       *)
(* default.                                                                *)
(***************************************************************************)
\* the validation blocks of the scenarios run: one that expects the status
\* 500 only, one that allows 200 and 500, one that requires a body text the
\* server does not send
EngineRules ==
    { [EmptyRules EXCEPT !.StatusCodes = <<500>>],
      [EmptyRules EXCEPT !.StatusCodes = <<200, 500>>],
      [EmptyRules EXCEPT !.StatusCodes = <<200>>, !.BodyContains = << <<"x">> >>] }

\* the scenarios run: without a validation block, and with each of the blocks
RuleScenarios ==
    {PlainScenario} \cup {[PlainScenario EXCEPT !.Validation = ValidationBlock(v)] : v \in EngineRules}

\* the runs of the scenarios: capped, without and with a static delay
RuleSetups ==
    { [config |-> LongRun(1), conv |-> "indefinite"],
      [config |-> ShortRun(1), conv |-> "saturate"] }

\* NewLoadEngine(cfg, scenario)
InitRules ==
    \E setup \in RuleSetups, s \in RuleScenarios :
        /\ config = setup.config
        /\ conv = setup.conv
        /\ scenario = s
        /\ validator = GetValidationConfig(s)
        /\ ctxErr = ""
        /\ runPc = "created"
        /\ launched = 0
        /\ wpc = [w \in Workers |-> "idle"]
        /\ requests = [w \in Workers |-> 0]
        /\ resp = [w \in Workers |-> NoResponse]
        /\ vres = [w \in Workers |-> NoResult]
        /\ collector = NewCollector
        /\ muReaders = 0
        /\ closed = FALSE
        /\ summary = NoSummary
        /\ rpc = "idle"
        /\ rsum = NoSummary
        /\ clock = 0
        /\ pace = [w \in Workers |-> NoPacing]
        /\ loadErr = Nil
        /\ ClientCreated
        /\ exit = NotExited

SpecRules == InitRules /\ [][Next]_vars

\* C38: RecordResponse counts a response as successful exactly when it has no
\* transport failure and a status below 400, whatever its validation result,
\* which is the result of Validate on the engine's rules: a response that
\* fails validation can count as successful, and a response of status >= 400
\* that the allow-list accepts passes validation and counts as failed.
C38_SuccessApartFromValidation ==
    /\ [](\A w \in Workers :
             wpc[w] \in InRecordValidation \cup InRecordResponse =>
                 vres[w] \in Validate(validator, resp[w]))
    /\ [][\A w \in Workers :
             (wpc[w] = "rr outcome" /\ wpc'[w] # "rr outcome") =>
                 IF resp[w].Error = Nil /\ resp[w].StatusCode < 400
                 THEN /\ collector'.successfulRequests = collector.successfulRequests + 1
                      /\ collector'.failedRequests = collector.failedRequests
                 ELSE /\ collector'.failedRequests = collector.failedRequests + 1
                      /\ collector'.successfulRequests = collector.successfulRequests]_vars

\* on rules that allow the status 500 only: a worker has had its response of
\* status 500 pass validation and counted as failed, after the other's
\* response of status 200 failed validation and counted as successful
C38_Witness ==
    /\ validator.StatusCodes = <<500>>
    /\ collector.successfulRequests = 1
    /\ collector.failedRequests = 1
    /\ collector.validationResults.FailedValidations = 1
    /\ collector.validationResults.PassedValidations = 1
    /\ \E w \in Workers :
          /\ wpc[w] = "rr error"
          /\ resp[w].Error = Nil
          /\ resp[w].StatusCode = 500
          /\ vres[w].Passed

\* the count of a bucket of a Go map: an absent key counts 0
BucketOf(m, k) == IF k \in DOMAIN m THEN m[k] ELSE 0

\* no worker is inside LoadEngine.RecordResponse
NoRecordCallInFlight ==
    \A w \in Workers : wpc[w] \notin InRecordValidation \cup InRecordResponse

\* C39: in the engine pipeline every failed validation carries a kind, and a
\* response is counted under an error signature exactly when it has a
\* transport failure; once no record call is in flight the validation error
\* buckets sum to FailedValidations and the request_error bucket equals the
\* sum of the Collector's error-signature buckets.
C39_BucketsAgree ==
    /\ [](\A w \in Workers :
             (Holding(w) /\ ~vres[w].Passed) => vres[w].ErrorType # "")
    /\ [](\A w \in Workers :
             Holding(w) => (vres[w].ErrorType = "request_error" <=> resp[w].Error # Nil))
    /\ [][\A w \in Workers :
             (wpc[w] = "rr error" /\ wpc'[w] # "rr error") =>
                 MapSum(collector'.errors) =
                     MapSum(collector.errors) + (IF resp[w].Error # Nil THEN 1 ELSE 0)]_vars
    /\ [](NoRecordCallInFlight =>
             /\ MapSum(collector.validationResults.ValidationErrors)
                   = collector.validationResults.FailedValidations
             /\ BucketOf(collector.validationResults.ValidationErrors, "request_error")
                   = MapSum(collector.errors))

\* no record call is in flight after a transport failure and a response that
\* failed validation by its status have been recorded
C39_Witness ==
    /\ NoRecordCallInFlight
    /\ collector.validationResults.FailedValidations = 2
    /\ BucketOf(collector.validationResults.ValidationErrors, "request_error") = 1
    /\ BucketOf(collector.validationResults.ValidationErrors, "status_code") = 1
    /\ MapSum(collector.errors) = 1
    /\ collector.failedRequests = 2

\* the sum of the phase durations of a load pattern
PhasesTotal(pattern) ==
    SumOver([i \in 1..Len(pattern.Phases) |-> pattern.Phases[i].Duration],
            1..Len(pattern.Phases))

\* C40: for every run configuration the engine accepts, every phase of the
\* computed load pattern has a non-negative duration and the phase durations
\* sum to at most the run's duration, also for steady with ramp-up +
\* ramp-down greater than the duration.
C40_PhasesWithinTheRun ==
    LET pattern == calculateLoadPattern(config)
    IN  /\ \A i \in 1..Len(pattern.Phases) : pattern.Phases[i].Duration >= 0
        /\ PhasesTotal(pattern) <= config.Duration

====
